---- MODULE Spec2Model ----
(***************************************************************************)
(* Transactional outbox + SAGA compensation of the measurement service     *)
(* (src/measurement_service/main.py) with the SAGA participant of          *)
(* src/child_profile_service/main.py and the RabbitMQ queues between them. *)
(*                                                                         *)
(* The SQLite store is modelled as a committed image `db` plus the working *)
(* image `tx` of the one connection that holds the write lock; every other *)
(* connection reads `db`.  Broker queues are sequences of messages.        *)
(***************************************************************************)
EXTENDS Integers, Sequences, FiniteSets, TLC

\* ------------------------------------------------------------------ bounds
MaxReq == 2          \* number of POST /measure calls explored
MaxFaults == 1       \* injected local-store failures and process kills explored
MaxConnFails == 1    \* failed connection attempts per worker explored by Spec

\* -------------------------------------------------------- program constants
max_retries == 10    \* connection attempts of every background worker

ChildIds == {1}      \* request.child_id values explored
Heights == {125}     \* request.height values explored
NoMsg == [nomsg |-> TRUE]

\* dict.get of a key the message does not have: None
None == -1

\* json.loads(body) succeeds and gives a JSON object
Parsable(m) == "child_id" \in DOMAIN m

\* ------------------------------------------------------------ serialisation
\* str(int): the decimal digits of a natural number, most significant first.
RECURSIVE Digits(_)
Digits(n) ==
    IF n < 10 THEN << <<"0","1","2","3","4","5","6","7","8","9">>[n + 1] >>
    ELSE Digits(n \div 10) \o Digits(n % 10)

\* value of a digit token, -1 for any other token
DigitVal(t) ==
    CASE t = "0" -> 0 [] t = "1" -> 1 [] t = "2" -> 2 [] t = "3" -> 3
      [] t = "4" -> 4 [] t = "5" -> 5 [] t = "6" -> 6 [] t = "7" -> 7
      [] t = "8" -> 8 [] t = "9" -> 9 [] OTHER -> -1

\* json.dumps of one "key": int member with the default separators (", ", ": ")
JsonMember(key, n) == <<key, ":", " ">> \o Digits(n)

\* json.dumps(event_payload): the outbox payload text as a token sequence
EventPayload(mid, child, height, ts) ==
    <<"{">> \o JsonMember("\"measurement_id\"", mid)
      \o <<",", " ">> \o JsonMember("\"child_id\"", child)
      \o <<",", " ">> \o JsonMember("\"height\"", height) \o <<".", "0">>
      \o <<",", " ">> \o JsonMember("\"timestamp\"", ts)
      \o <<",", " ", "\"task\"", ":", " ", "\"send_notification\"">>
      \o <<",", " ", "\"text\"", ":", " ", "\"Measurement complete: child ">>
      \o Digits(child) \o <<", height ">> \o Digits(height) \o <<".", "0", "cm\"", "}">>

\* json.loads(text).get(key) for an integer member: None is modelled as -1
RECURSIVE ReadInt(_, _, _)
ReadInt(text, i, acc) ==
    IF i > Len(text) \/ DigitVal(text[i]) < 0 THEN acc
    ELSE ReadInt(text, i + 1, 10 * acc + DigitVal(text[i]))

JsonGet(text, key) ==
    LET at == {i \in 1..Len(text) : text[i] = key}
    IN IF at = {} THEN -1
       ELSE LET i == CHOOSE j \in at : \A k \in at : j <= k
            IN ReadInt(text, i + 3, 0)

\* SQL: payload LIKE '%' || pat || '%' (pat has no wildcard of its own here)
Like(text, pat) ==
    \E i \in 0..(Len(text) - Len(pat)) :
        \A k \in 1..Len(pat) : text[i + k] = pat[k]

\* {measurement_id} in an f-string: str() of an int or of None
Str(v) == IF v = None THEN <<"None">> ELSE Digits(v)

\* f'%"measurement_id":{measurement_id}%' of compensate_saga_failure, without
\* the enclosing % signs
\* mutant of CancelPattern: the pattern has the space json.dumps writes
CancelPattern_Spaced(mid) == <<"\"measurement_id\"", ":", " ">> \o Str(mid)

\* mutant of CancelPattern: the pattern matches every payload
CancelPattern_Any(mid) == <<"\"measurement_id\"", ":", " ">>

CancelPattern(mid) == <<"\"measurement_id\"", ":">> \o Str(mid)

\* -------------------------------------------------------------------- state
VARIABLES
    db,         \* committed image of measurements.db
    tx,         \* [owner, db]: the connection holding the write lock and its image
    nReq,       \* number of measure() calls so far (also the clock of timestamps)
    wpc,        \* position of the measure() handler
    wreq,       \* its request: [child_id, height, force_saga_error]
    wmid,       \* its measurement_id = cursor.lastrowid
    wts,        \* its timestamp
    resp,       \* last response of measure()
    ppc,        \* position of publish_outbox_events
    pattempt,   \* its loop variable attempt
    pchan,      \* its channel: "none", "open" or "lost"
    batch,      \* its unpublished_events
    pidx,       \* index of the event of batch being handled
    cpc,        \* position of consume_saga_compensation / compensate_saga_failure
    cattempt,   \* its loop variable attempt
    cchan,      \* its channel: "none", "open" or "lost"
    cmsg,       \* the delivery it has not acknowledged yet
    cverbs,     \* basic_ack / basic_nack calls made for its last delivery, in order
    sagaQ,      \* profile_update_queue
    dlq,        \* profile_saga_dlq
    notifyQ,    \* every message notify_queue has accepted, in order
    brokerUp,   \* RabbitMQ is reachable
    profiles,   \* committed child_profiles table of the child profile service
    ptx,        \* uncommitted image of child_profiles in update_profile_from_saga
    spc,        \* position of saga_callback
    smsg,       \* the delivery saga_callback handles, or handled last
    sverbs,     \* basic_ack / basic_nack calls made for that delivery, in order
    sclock,     \* datetime('now') of the child profile service
    faults,     \* injected store failures and kills so far
    killedAfterPub, \* events for which the publisher was killed between publish and commit
    registry,   \* exchanges, queues and bindings RabbitMQ holds
    dpc,        \* per client: declarations of its block made so far, -1 once one raised
    swk,        \* position of consume_saga_events: connect, consume or stopped
    schan,      \* its connection: none, open or lost
    sattempt    \* its loop variable attempt

vars == <<db, tx, nReq, wpc, wreq, wmid, wts, resp, ppc, pattempt, pchan, batch,
          pidx, cpc, cattempt, cchan, cmsg, cverbs, sagaQ, dlq, notifyQ, brokerUp,
          profiles, ptx, spc, smsg, sverbs, sclock, faults, killedAfterPub,
          registry, dpc, swk, schan, sattempt>>

wvars == <<wpc, wreq, wmid, wts, resp, nReq>>
pvars == <<ppc, pattempt, pchan, batch, pidx>>
cvars == <<cpc, cattempt, cchan, cmsg, cverbs>>
qvars == <<sagaQ, dlq, notifyQ>>
svars == <<profiles, ptx, spc, smsg, sverbs, sclock>>
kvars == <<swk, schan, sattempt>>
rvars == <<registry, dpc, kvars>>

\* ---------------------------------------------------------- broker topology
\* queue and exchange names of the measurement service
NOTIFY_QUEUE == "notify_queue"
DLX_NAME == "measurement_dlx"
DLQ_NAME == "measurement_dlq"
SAGA_QUEUE == "profile_update_queue"
SAGA_DLX_NAME == "profile_saga_dlx"
SAGA_DLQ_NAME == "profile_saga_dlq"

\* the same names as the child profile service spells them
Profile_SAGA_QUEUE == "profile_update_queue"
Profile_SAGA_DLX_NAME == "profile_saga_dlx"
Profile_SAGA_DLQ_NAME == "profile_saga_dlq"

\* channel.exchange_declare(exchange=, exchange_type=, durable=True)
ExchangeDeclare(name, type) ==
    [op |-> "exchange_declare", name |-> name, exchange_type |-> type,
     durable |-> TRUE, dlx |-> "", dlrk |-> "", exchange |-> "", routing_key |-> ""]

\* channel.queue_declare(queue=, durable=True, arguments={x-dead-letter-...})
QueueDeclare(name, dlx, dlrk) ==
    [op |-> "queue_declare", name |-> name, exchange_type |-> "",
     durable |-> TRUE, dlx |-> dlx, dlrk |-> dlrk, exchange |-> "", routing_key |-> ""]

\* channel.queue_bind(exchange=, queue=, routing_key=)
QueueBind(exchange, queue, key) ==
    [op |-> "queue_bind", name |-> queue, exchange_type |-> "",
     durable |-> TRUE, dlx |-> "", dlrk |-> "", exchange |-> exchange,
     routing_key |-> key]

Has(reg, op, name) == \E x \in reg : x.op = op /\ x.name = name

\* RabbitMQ's answer to one declaration: a new object is created, an equal
\* redeclaration is accepted, a different one raises PRECONDITION_FAILED; a
\* binding needs its exchange and its queue (NOT_FOUND otherwise)
Declare(reg, d) ==
    IF d.op = "queue_bind"
    THEN IF Has(reg, "exchange_declare", d.exchange) /\ Has(reg, "queue_declare", d.name)
         THEN [ok |-> TRUE, reg |-> reg \cup {d}]
         ELSE [ok |-> FALSE, reg |-> reg]
    ELSE IF \A x \in reg : (x.op = d.op /\ x.name = d.name) => x = d
         THEN [ok |-> TRUE, reg |-> reg \cup {d}]
         ELSE [ok |-> FALSE, reg |-> reg]

\* a block of declarations on one channel: the first that raises ends it
RECURSIVE DeclareAll(_, _)
DeclareAll(reg, ds) ==
    IF ds = <<>> THEN [ok |-> TRUE, reg |-> reg]
    ELSE LET r == Declare(reg, Head(ds))
         IN IF r.ok THEN DeclareAll(r.reg, Tail(ds)) ELSE r

\* a message rejected by or expired in queue q reaches a queue: q names a
\* dead-letter exchange that exists and has a binding for q's dead-letter key
Routable(reg, q) ==
    \E qd \in reg :
        /\ qd.op = "queue_declare" /\ qd.name = q /\ qd.dlx # ""
        /\ Has(reg, "exchange_declare", qd.dlx)
        /\ \E b \in reg : /\ b.op = "queue_bind"
                           /\ b.exchange = qd.dlx
                           /\ b.routing_key = qd.dlrk
                           /\ Has(reg, "queue_declare", b.name)

\* publish_outbox_events: notify_queue with its dead-letter arguments
PublisherDecls ==
    <<QueueDeclare(NOTIFY_QUEUE, DLX_NAME, DLQ_NAME)>>

\* measure(), Step 3: SAGA DLX, DLQ, binding, then the SAGA queue
MeasureDecls ==
    <<ExchangeDeclare(SAGA_DLX_NAME, "direct"),
      QueueDeclare(SAGA_DLQ_NAME, "", ""),
      QueueBind(SAGA_DLX_NAME, SAGA_DLQ_NAME, SAGA_DLQ_NAME),
      QueueDeclare(SAGA_QUEUE, SAGA_DLX_NAME, SAGA_DLQ_NAME)>>

\* consume_saga_compensation: SAGA DLX, DLQ, binding
ListenerDecls ==
    <<ExchangeDeclare(SAGA_DLX_NAME, "direct"),
      QueueDeclare(SAGA_DLQ_NAME, "", ""),
      QueueBind(SAGA_DLX_NAME, SAGA_DLQ_NAME, SAGA_DLQ_NAME)>>

\* mutant of ParticipantDecls: the SAGA queue is declared without arguments
ParticipantDecls_NoDlx ==
    <<ExchangeDeclare(Profile_SAGA_DLX_NAME, "direct"),
      QueueDeclare(Profile_SAGA_DLQ_NAME, "", ""),
      QueueBind(Profile_SAGA_DLX_NAME, Profile_SAGA_DLQ_NAME, Profile_SAGA_DLQ_NAME),
      QueueDeclare(Profile_SAGA_QUEUE, "", "")>>

\* consume_saga_events of the child profile service
ParticipantDecls ==
    <<ExchangeDeclare(Profile_SAGA_DLX_NAME, "direct"),
      QueueDeclare(Profile_SAGA_DLQ_NAME, "", ""),
      QueueBind(Profile_SAGA_DLX_NAME, Profile_SAGA_DLQ_NAME, Profile_SAGA_DLQ_NAME),
      QueueDeclare(Profile_SAGA_QUEUE, Profile_SAGA_DLX_NAME, Profile_SAGA_DLQ_NAME)>>

\* consume of the notification service: notify_queue, durable, no arguments
NotifierDecls ==
    <<QueueDeclare("notify_queue", "", "")>>

Clients == {"publisher", "initiator", "listener", "participant", "notifier"}

Decls(c) ==
    CASE c = "publisher" -> PublisherDecls
      [] c = "initiator" -> MeasureDecls
      [] c = "listener" -> ListenerDecls
      [] c = "participant" -> ParticipantDecls
      [] c = "notifier" -> NotifierDecls

\* ----------------------------------------------------------- store helpers
\* init_database: both tables exist and are empty, AUTOINCREMENT counters at 0
EmptyDb == [meas |-> <<>>, outbox |-> <<>>, mseq |-> 0, oseq |-> 0]

NoTx == [owner |-> "none"]

\* the image a connection works on: its own uncommitted one, else the committed
View(who) == IF tx.owner = who THEN tx.db ELSE db

\* the first INSERT/UPDATE/DELETE of a connection takes SQLite's write lock
CanWrite(who) == tx.owner \in {"none", who}

Put(f, k, v) == [i \in DOMAIN f \cup {k} |-> IF i = k THEN v ELSE f[i]]
Drop(f, k) == [i \in DOMAIN f \ {k} |-> f[i]]

\* mutant of InsertMeasurement: the id column is not AUTOINCREMENT, the new
\* rowid is one more than the largest in the table
InsertMeasurement_Rowid(d, child, height, ts, status) ==
    LET top == IF DOMAIN d.meas = {} THEN 0
               ELSE CHOOSE x \in DOMAIN d.meas : \A y \in DOMAIN d.meas : y <= x
    IN [d EXCEPT !.mseq = top + 1,
                 !.meas = Put(d.meas, top + 1,
                              [child_id |-> child, height |-> height,
                               timestamp |-> ts, status |-> status])]

\* INSERT INTO measurements (child_id, height, timestamp, status)
InsertMeasurement(d, child, height, ts, status) ==
    [d EXCEPT !.mseq = d.mseq + 1,
              !.meas = Put(d.meas, d.mseq + 1,
                           [child_id |-> child, height |-> height,
                            timestamp |-> ts, status |-> status])]

\* mutant of InsertOutbox: the row is inserted as already published
InsertOutbox_Published(d, type, payload, published, ts) ==
    [d EXCEPT !.oseq = d.oseq + 1,
              !.outbox = Put(d.outbox, d.oseq + 1,
                             [event_type |-> type, payload |-> payload,
                              published |-> 1, created_at |-> ts])]

\* INSERT INTO outbox (event_type, payload, published, created_at)
InsertOutbox(d, type, payload, published, ts) ==
    [d EXCEPT !.oseq = d.oseq + 1,
              !.outbox = Put(d.outbox, d.oseq + 1,
                             [event_type |-> type, payload |-> payload,
                              published |-> published, created_at |-> ts])]

\* UPDATE outbox SET published = 1 WHERE id = ?
MarkPublished(d, eid) ==
    IF eid \in DOMAIN d.outbox
    THEN [d EXCEPT !.outbox[eid].published = 1]
    ELSE d

\* mutant of MarkSent: the UPDATE has lost its WHERE clause
MarkSent_NoWhere(d, mid) ==
    [d EXCEPT !.meas = [m \in DOMAIN d.meas |-> [d.meas[m] EXCEPT !.status = "sent"]]]

\* mutant of MarkSent: another status word is written
MarkSent_Delivered(d, mid) ==
    IF mid \in DOMAIN d.meas
    THEN [d EXCEPT !.meas[mid].status = "delivered"]
    ELSE d

\* UPDATE measurements SET status = 'sent' WHERE id = ?
MarkSent(d, mid) ==
    IF mid \in DOMAIN d.meas
    THEN [d EXCEPT !.meas[mid].status = "sent"]
    ELSE d

\* mutant of DeleteMeasurement: the newest Measurement is deleted instead
DeleteMeasurement_Newest(d, mid) ==
    IF DOMAIN d.meas = {} THEN d
    ELSE [d EXCEPT !.meas =
            Drop(d.meas, CHOOSE x \in DOMAIN d.meas : \A y \in DOMAIN d.meas : y <= x)]

\* mutant of DeleteMeasurement: only a pending Measurement is deleted
DeleteMeasurement_PendingOnly(d, mid) ==
    IF mid \in DOMAIN d.meas
    THEN IF d.meas[mid].status = "pending" THEN [d EXCEPT !.meas = Drop(d.meas, mid)] ELSE d
    ELSE d

\* DELETE FROM measurements WHERE id = ?
DeleteMeasurement(d, mid) == [d EXCEPT !.meas = Drop(d.meas, mid)]

\* UPDATE outbox SET published = -1 WHERE payload LIKE ? AND published = 0
CancelEvents(d, mid) ==
    [d EXCEPT !.outbox =
        [e \in DOMAIN d.outbox |->
            IF Like(d.outbox[e].payload, CancelPattern(mid))
               /\ d.outbox[e].published = 0
            THEN [d.outbox[e] EXCEPT !.published = -1]
            ELSE d.outbox[e]]]

\* SELECT id, payload FROM outbox WHERE published = 0 ORDER BY id ASC LIMIT 10
RECURSIVE Ascending(_)
Ascending(S) ==
    IF S = {} THEN <<>>
    ELSE LET m == CHOOSE x \in S : \A y \in S : x <= y
         IN <<m>> \o Ascending(S \ {m})

BatchLimit == 10

\* mutant of FetchUnpublished: ORDER BY id DESC
FetchUnpublished_Desc(d) ==
    LET ids == Ascending({e \in DOMAIN d.outbox : d.outbox[e].published = 0})
        n == IF Len(ids) < BatchLimit THEN Len(ids) ELSE BatchLimit
    IN [i \in 1..n |-> [id |-> ids[Len(ids) + 1 - i],
                        payload |-> d.outbox[ids[Len(ids) + 1 - i]].payload]]

\* mutant of FetchUnpublished: the SELECT has lost its LIMIT
FetchUnpublished_NoLimit(d) ==
    LET ids == Ascending({e \in DOMAIN d.outbox : d.outbox[e].published = 0})
    IN [i \in 1..Len(ids) |-> [id |-> ids[i], payload |-> d.outbox[ids[i]].payload]]

FetchUnpublished(d) ==
    LET ids == Ascending({e \in DOMAIN d.outbox : d.outbox[e].published = 0})
        n == IF Len(ids) < BatchLimit THEN Len(ids) ELSE BatchLimit
    IN [i \in 1..n |-> [id |-> ids[i], payload |-> d.outbox[ids[i]].payload]]

Requests ==
    [child_id : ChildIds, height : Heights, force_saga_error : BOOLEAN]

NoResp == [status |-> "none"]

\* update_profile_from_saga has no connection open
NoPtx == [open |-> FALSE]

\* init_database of the child profile service: the two sample rows
SampleProfiles ==
    [c \in {1, 2} |->
        IF c = 1
        THEN [name |-> "John", age |-> 7, last_height |-> 120, last_updated |-> 0]
        ELSE [name |-> "Jane", age |-> 10, last_height |-> 140, last_updated |-> 0]]

Init ==
    /\ db = EmptyDb
    /\ tx = NoTx
    /\ nReq = 0
    /\ wpc = "idle"
    /\ wreq = NoMsg
    /\ wmid = 0
    /\ wts = 0
    /\ resp = NoResp
    /\ ppc = "connect"
    /\ pattempt = 0
    /\ pchan = "none"
    /\ batch = <<>>
    /\ pidx = 0
    /\ cpc = "connect"
    /\ cattempt = 0
    /\ cchan = "none"
    /\ cmsg = NoMsg
    /\ cverbs = <<>>
    /\ sagaQ = <<>>
    /\ dlq = <<>>
    /\ notifyQ = <<>>
    /\ brokerUp \in BOOLEAN
    /\ profiles = SampleProfiles
    /\ ptx = NoPtx
    /\ spc = "idle"
    /\ smsg = NoMsg
    /\ sverbs = <<>>
    /\ sclock = 0
    /\ faults = 0
    /\ killedAfterPub = {}
    \* the SAGA consumer is up: its declarations are made
    /\ registry = DeclareAll({}, ParticipantDecls).reg
    /\ dpc = [c \in Clients |-> IF c = "participant" THEN Len(ParticipantDecls) ELSE 0]
    /\ swk = "consume"
    /\ schan = "open"
    /\ sattempt = 0

\* ------------------------------------------------------------ measure()
MESSAGE_TTL_MS == 30000

\* mutant of SagaPayload: the flag of the request is not passed on
SagaPayload_NoFlag(mid, r, ts) ==
    [measurement_id |-> mid, child_id |-> r.child_id, height |-> r.height,
     timestamp |-> ts, force_error |-> FALSE, x_death |-> "none",
     delivery_mode |-> 2, expiration |-> Digits(MESSAGE_TTL_MS)]

\* The SAGA request built by measure(): saga_payload, and the properties
\* delivery_mode=2 and expiration=str(MESSAGE_TTL_MS) it is published with
SagaPayload(mid, r, ts) ==
    [measurement_id |-> mid, child_id |-> r.child_id, height |-> r.height,
     timestamp |-> ts, force_error |-> r.force_saga_error, x_death |-> "none",
     delivery_mode |-> 2, expiration |-> Digits(MESSAGE_TTL_MS)]

Created(mid) == [status |-> "created", measurement_id |-> mid]
Failed == [status |-> "error"]

\* sqlite3.connect, timestamp, Step 1: INSERT INTO measurements, lastrowid
MeasureInsertMeasurement(r) ==
    /\ wpc = "idle"
    /\ nReq < MaxReq
    /\ CanWrite("writer")
    /\ tx' = [owner |-> "writer",
              db |-> InsertMeasurement(View("writer"), r.child_id, r.height, nReq + 1, "pending")]
    /\ wmid' = View("writer").mseq + 1
    /\ wts' = nReq + 1
    /\ wreq' = r
    /\ nReq' = nReq + 1
    /\ resp' = NoResp
    /\ wpc' = "insert_outbox"
    /\ UNCHANGED <<rvars, db, pvars, cvars, qvars, brokerUp, svars, faults, killedAfterPub>>

\* Step 2: INSERT INTO outbox with json.dumps(event_payload), published 0
MeasureInsertOutbox ==
    /\ wpc = "insert_outbox"
    /\ tx' = [tx EXCEPT !.db =
                InsertOutbox(tx.db, "measurement_created",
                             EventPayload(wmid, wreq.child_id, wreq.height, wts),
                             0, wts)]
    /\ wpc' = "commit"
    /\ UNCHANGED <<rvars, db, nReq, wreq, wmid, wts, resp, pvars, cvars, qvars, brokerUp,
                   svars, faults, killedAfterPub>>

\* conn.commit()
MeasureCommit ==
    /\ wpc = "commit"
    /\ db' = tx.db
    /\ tx' = NoTx
    /\ wpc' = "saga"
    /\ UNCHANGED <<rvars, nReq, wreq, wmid, wts, resp, pvars, cvars, qvars, brokerUp,
                   svars, faults, killedAfterPub>>

\* Step 3 succeeds: the SAGA request is published; return "created"
MeasureSagaPublish ==
    /\ wpc = "saga"
    /\ brokerUp
    /\ DeclareAll(registry, MeasureDecls).ok
    /\ registry' = DeclareAll(registry, MeasureDecls).reg
    /\ sagaQ' = Append(sagaQ, SagaPayload(wmid, wreq, wts))
    /\ resp' = Created(wmid)
    /\ wpc' = "idle"
    /\ UNCHANGED <<dpc, kvars, db, tx, nReq, wreq, wmid, wts, pvars, cvars, dlq, notifyQ,
                   brokerUp, svars, faults, killedAfterPub>>

\* mutant of MeasureSagaFail: the publish error reaches the outer except
MeasureSagaFail_Raises ==
    /\ wpc = "saga"
    /\ ~brokerUp \/ ~DeclareAll(registry, MeasureDecls).ok
    /\ registry' = (IF brokerUp THEN DeclareAll(registry, MeasureDecls).reg ELSE registry)
    /\ resp' = Failed
    /\ wpc' = "idle"
    /\ UNCHANGED <<dpc, kvars, db, tx, nReq, wreq, wmid, wts, pvars, cvars, qvars,
                   brokerUp, svars, faults, killedAfterPub>>

\* Step 3 raises: logged and swallowed; return "created"
MeasureSagaFail ==
    /\ wpc = "saga"
    /\ ~brokerUp \/ ~DeclareAll(registry, MeasureDecls).ok
    /\ registry' = (IF brokerUp THEN DeclareAll(registry, MeasureDecls).reg ELSE registry)
    /\ resp' = Created(wmid)
    /\ wpc' = "idle"
    /\ UNCHANGED <<dpc, kvars, db, tx, nReq, wreq, wmid, wts, pvars, cvars, qvars,
                   brokerUp, svars, faults, killedAfterPub>>

\* mutant of MeasureStoreFail: the handler commits instead of rolling back
MeasureStoreFail_Commits(r) ==
    /\ faults < MaxFaults
    /\ wpc \in {"insert_outbox", "commit"}
    /\ r = wreq
    /\ db' = tx.db
    /\ tx' = NoTx
    /\ faults' = faults + 1
    /\ resp' = Failed
    /\ wpc' = "idle"
    /\ UNCHANGED <<rvars, wreq, wts, nReq, wmid, pvars, cvars, qvars, brokerUp, svars,
                   killedAfterPub>>

\* except Exception: a storage error at connect, either INSERT or the commit:
\* conn.rollback() and the error response
MeasureStoreFail(r) ==
    /\ faults < MaxFaults
    /\ \/ /\ wpc = "idle"
          /\ nReq < MaxReq
          /\ wreq' = r
          /\ wts' = nReq + 1
          /\ nReq' = nReq + 1
          /\ wmid' = 0
          /\ UNCHANGED tx
       \/ /\ wpc \in {"insert_outbox", "commit"}
          /\ r = wreq
          /\ tx' = NoTx
          /\ UNCHANGED <<wreq, wts, nReq, wmid>>
    /\ faults' = faults + 1
    /\ resp' = Failed
    /\ wpc' = "idle"
    /\ UNCHANGED <<rvars, db, pvars, cvars, qvars, brokerUp, svars, killedAfterPub>>

\* ------------------------------------------------- publish_outbox_events()
\* the event of the batch the for loop is at
Cur == batch[pidx]

\* the for loop moves on; after the last event conn.close(), sleep, next cycle
NextEvent ==
    /\ IF pidx < Len(batch)
       THEN /\ pidx' = pidx + 1
            /\ ppc' = "publish"
            /\ UNCHANGED batch
       ELSE /\ pidx' = 0
            /\ ppc' = "poll"
            /\ batch' = <<>>

\* for attempt in range(max_retries): BlockingConnection and queue_declare succeed
PublisherConnect ==
    /\ ppc = "connect"
    /\ brokerUp
    /\ DeclareAll(registry, PublisherDecls).ok
    /\ registry' = DeclareAll(registry, PublisherDecls).reg
    /\ pchan' = "open"
    /\ ppc' = "poll"
    /\ pattempt' = 0      \* attempt is not read after the break
    /\ UNCHANGED <<dpc, kvars, db, tx, wvars, batch, pidx, cvars, qvars,
                   brokerUp, svars, faults, killedAfterPub>>

\* mutant of PublisherConnectFail: one attempt too many
PublisherConnectFail_OffByOne ==
    /\ ppc = "connect"
    /\ ~brokerUp \/ ~DeclareAll(registry, PublisherDecls).ok
    /\ registry' = (IF brokerUp THEN DeclareAll(registry, PublisherDecls).reg ELSE registry)
    /\ IF pattempt < max_retries
       THEN /\ pattempt' = pattempt + 1
            /\ UNCHANGED ppc
       ELSE /\ ppc' = "stopped"
            /\ UNCHANGED pattempt
    /\ UNCHANGED <<dpc, kvars, db, tx, wvars, pchan, batch, pidx, cvars, qvars,
                   brokerUp, svars, faults, killedAfterPub>>

\* the attempt raises: sleep and retry, or return after the last attempt
PublisherConnectFail ==
    /\ ppc = "connect"
    /\ ~brokerUp \/ ~DeclareAll(registry, PublisherDecls).ok
    /\ registry' = (IF brokerUp THEN DeclareAll(registry, PublisherDecls).reg ELSE registry)
    /\ IF pattempt < max_retries - 1
       THEN /\ pattempt' = pattempt + 1
            /\ UNCHANGED ppc
       ELSE /\ ppc' = "stopped"
            /\ UNCHANGED pattempt
    /\ UNCHANGED <<dpc, kvars, db, tx, wvars, pchan, batch, pidx, cvars, qvars,
                   brokerUp, svars, faults, killedAfterPub>>

\* one cycle starts: SELECT the unpublished events; an empty batch ends the cycle
PublisherPoll ==
    /\ ppc = "poll"
    /\ batch' = FetchUnpublished(db)
    /\ IF batch' = <<>>
       THEN /\ pidx' = 0
            /\ UNCHANGED ppc
       ELSE /\ pidx' = 1
            /\ ppc' = "publish"
    /\ UNCHANGED <<rvars, db, tx, wvars, pattempt, pchan, cvars, qvars,
                   brokerUp, svars, faults, killedAfterPub>>

\* connect or SELECT raises: "Error in outbox publisher", sleep, next cycle
PublisherPollFail ==
    /\ ppc = "poll"
    /\ faults < MaxFaults
    /\ faults' = faults + 1
    /\ UNCHANGED <<rvars, db, tx, wvars, ppc, pattempt, pchan, batch, pidx, cvars, qvars,
                   brokerUp, svars, killedAfterPub>>

\* channel.basic_publish: returns normally on an open channel
BasicPublishOk == pchan = "open" /\ brokerUp

PublisherPublish ==
    /\ ppc = "publish"
    /\ BasicPublishOk
    /\ notifyQ' = Append(notifyQ, [eid |-> Cur.id, body |-> Cur.payload])
    /\ ppc' = "mark"
    /\ UNCHANGED <<rvars, db, tx, wvars, pattempt, pchan, batch, pidx, cvars, sagaQ,
                   dlq, brokerUp, svars, faults, killedAfterPub>>

\* mutant of PublisherPublishFail: the error is swallowed and the event marked
PublisherPublishFail_Marks ==
    /\ ppc = "publish"
    /\ ~BasicPublishOk
    /\ ppc' = "mark"
    /\ UNCHANGED <<rvars, db, tx, wvars, pattempt, pchan, batch, pidx, cvars, qvars,
                   brokerUp, svars, faults, killedAfterPub>>

\* channel.basic_publish raises: conn.rollback(), next event
PublisherPublishFail ==
    /\ ppc = "publish"
    /\ ~BasicPublishOk
    /\ NextEvent
    /\ UNCHANGED <<rvars, db, tx, wvars, pattempt, pchan, cvars, qvars,
                   brokerUp, svars, faults, killedAfterPub>>

\* mutant of PublisherMark: the connection is in autocommit mode
PublisherMark_Autocommit ==
    /\ ppc = "mark"
    /\ CanWrite("publisher")
    /\ db' = MarkPublished(db, Cur.id)
    /\ tx' = [owner |-> "publisher", db |-> MarkPublished(db, Cur.id)]
    /\ ppc' = "status"
    /\ UNCHANGED <<rvars, wvars, pattempt, pchan, batch, pidx, cvars, qvars,
                   brokerUp, svars, faults, killedAfterPub>>

\* UPDATE outbox SET published = 1 WHERE id = ?  (takes the write lock)
PublisherMark ==
    /\ ppc = "mark"
    /\ CanWrite("publisher")
    /\ tx' = [owner |-> "publisher", db |-> MarkPublished(View("publisher"), Cur.id)]
    /\ ppc' = "status"
    /\ UNCHANGED <<rvars, db, wvars, pattempt, pchan, batch, pidx, cvars, qvars,
                   brokerUp, svars, faults, killedAfterPub>>

\* payload = json.loads(payload_json); if measurement_id: UPDATE measurements
StatusUpdate(d, payload) ==
    LET measurement_id == JsonGet(payload, "\"measurement_id\"")
    IN IF measurement_id > 0 THEN MarkSent(d, measurement_id) ELSE d

PublisherStatus ==
    /\ ppc = "status"
    /\ tx' = [tx EXCEPT !.db = StatusUpdate(tx.db, Cur.payload)]
    /\ ppc' = "commit"
    /\ UNCHANGED <<rvars, db, wvars, pattempt, pchan, batch, pidx, cvars, qvars,
                   brokerUp, svars, faults, killedAfterPub>>

\* conn.commit(), next event
PublisherCommit ==
    /\ ppc = "commit"
    /\ db' = tx.db
    /\ tx' = NoTx
    /\ NextEvent
    /\ UNCHANGED <<rvars, wvars, pattempt, pchan, cvars, qvars,
                   brokerUp, svars, faults, killedAfterPub>>

\* mutant of PublisherStoreFail: the error ends the batch (break, not continue)
PublisherStoreFail_Break ==
    /\ ppc \in {"mark", "status", "commit"}
    /\ faults < MaxFaults
    /\ faults' = faults + 1
    /\ tx' = IF tx.owner = "publisher" THEN NoTx ELSE tx
    /\ ppc' = "poll"
    /\ pidx' = 0
    /\ batch' = <<>>
    /\ UNCHANGED <<rvars, db, wvars, pattempt, pchan, cvars, qvars,
                   brokerUp, svars, killedAfterPub>>

\* an UPDATE or the commit raises: conn.rollback(), next event
PublisherStoreFail ==
    /\ ppc \in {"mark", "status", "commit"}
    /\ faults < MaxFaults
    /\ faults' = faults + 1
    /\ tx' = IF tx.owner = "publisher" THEN NoTx ELSE tx
    /\ NextEvent
    /\ UNCHANGED <<rvars, db, wvars, pattempt, pchan, cvars, qvars,
                   brokerUp, svars, killedAfterPub>>

\* --------------------- consume_saga_compensation / compensate_saga_failure
\* except of the connection loop: retry while attempts are left, else return
CompRetry ==
    /\ cchan' = "none"
    /\ IF cattempt < max_retries - 1
       THEN /\ cattempt' = cattempt + 1
            /\ cpc' = "connect"
       ELSE /\ cpc' = "stopped"
            /\ UNCHANGED cattempt

\* this delivery is still unacknowledged at the broker
Unacked == cpc \in {"cancel", "commit", "ack"} /\ cchan = "open"

\* connection, declarations, basic_qos(1), basic_consume, start_consuming
CompConnect ==
    /\ cpc = "connect"
    /\ brokerUp
    /\ DeclareAll(registry, ListenerDecls).ok
    /\ registry' = DeclareAll(registry, ListenerDecls).reg
    /\ cchan' = "open"
    /\ cpc' = "consume"
    /\ UNCHANGED <<dpc, kvars, db, tx, wvars, pvars, cattempt, cmsg, cverbs, qvars, brokerUp, svars,
                   faults, killedAfterPub>>

CompConnectFail ==
    /\ cpc = "connect"
    /\ ~brokerUp \/ ~DeclareAll(registry, ListenerDecls).ok
    /\ registry' = (IF brokerUp THEN DeclareAll(registry, ListenerDecls).reg ELSE registry)
    /\ CompRetry
    /\ UNCHANGED <<dpc, kvars, db, tx, wvars, pvars, cmsg, cverbs, qvars, brokerUp, svars,
                   faults, killedAfterPub>>

\* start_consuming raises on the lost connection, also when basic_ack and then
\* basic_nack raise inside the callback
CompConnectionLost ==
    /\ cpc \in {"consume", "ack"}
    /\ cchan = "lost"
    /\ CompRetry
    /\ cmsg' = NoMsg
    /\ UNCHANGED <<rvars, db, tx, wvars, pvars, cverbs, qvars, brokerUp, svars,
                   faults, killedAfterPub>>

\* a delivery: json.loads, connect, DELETE FROM measurements WHERE id = ?
CompDelete ==
    /\ cpc = "consume"
    /\ cchan = "open"
    /\ dlq # <<>>
    /\ Parsable(Head(dlq))
    /\ CanWrite("listener")
    /\ cmsg' = Head(dlq)
    /\ dlq' = Tail(dlq)
    /\ tx' = [owner |-> "listener",
              db |-> DeleteMeasurement(View("listener"), Head(dlq).measurement_id)]
    /\ cverbs' = <<>>
    /\ cpc' = "cancel"
    /\ UNCHANGED <<rvars, db, wvars, pvars, cattempt, cchan, sagaQ, notifyQ, brokerUp,
                   svars, faults, killedAfterPub>>

\* mutant of CompReject: the delivery is rejected with requeue=False
CompReject_Discards ==
    /\ cpc = "consume"
    /\ cchan = "open"
    /\ dlq # <<>>
    /\ ~Parsable(Head(dlq))
    /\ cverbs' = <<"nack">>
    /\ dlq' = Tail(dlq)
    /\ UNCHANGED <<rvars, db, tx, wvars, pvars, cpc, cattempt, cchan, cmsg, sagaQ,
                   notifyQ, brokerUp, svars, faults, killedAfterPub>>

\* json.loads(body) raises: basic_nack(requeue=True) before the store is
\* opened; the broker puts the message back at the head of the queue
CompReject ==
    /\ cpc = "consume"
    /\ cchan = "open"
    /\ dlq # <<>>
    /\ ~Parsable(Head(dlq))
    /\ cverbs' = <<"nack_requeue">>
    /\ dlq' = <<Head(dlq)>> \o Tail(dlq)
    /\ UNCHANGED <<rvars, db, tx, wvars, pvars, cpc, cattempt, cchan, cmsg, sagaQ,
                   notifyQ, brokerUp, svars, faults, killedAfterPub>>

\* UPDATE outbox SET published = -1 WHERE payload LIKE ? AND published = 0
CompCancel ==
    /\ cpc = "cancel"
    /\ tx' = [tx EXCEPT !.db = CancelEvents(tx.db, cmsg.measurement_id)]
    /\ cpc' = "commit"
    /\ UNCHANGED <<rvars, db, wvars, pvars, cattempt, cchan, cmsg, cverbs, qvars, brokerUp,
                   svars, faults, killedAfterPub>>

\* conn.commit(); conn.close()
CompCommit ==
    /\ cpc = "commit"
    /\ db' = tx.db
    /\ tx' = NoTx
    /\ cpc' = "ack"
    /\ UNCHANGED <<rvars, wvars, pvars, cattempt, cchan, cmsg, cverbs, qvars, brokerUp,
                   svars, faults, killedAfterPub>>

\* ch.basic_ack
CompAck ==
    /\ cpc = "ack"
    /\ cchan = "open"
    /\ cmsg' = NoMsg
    /\ cverbs' = Append(cverbs, "ack")
    /\ cpc' = "consume"
    /\ UNCHANGED <<rvars, db, tx, wvars, pvars, cattempt, cchan, qvars, brokerUp,
                   svars, faults, killedAfterPub>>

\* mutant of CompStoreFail: the statements executed so far are committed
CompStoreFail_Commits ==
    /\ faults < MaxFaults
    /\ cpc \in {"cancel", "commit"}
    /\ db' = tx.db
    /\ tx' = NoTx
    /\ cverbs' = Append(cverbs, "nack_requeue")
    /\ dlq' = IF cchan = "open" THEN <<cmsg>> \o dlq ELSE dlq
    /\ faults' = faults + 1
    /\ cmsg' = NoMsg
    /\ cpc' = "consume"
    /\ UNCHANGED <<rvars, wvars, pvars, cattempt, cchan, sagaQ, notifyQ, brokerUp,
                   svars, killedAfterPub>>

\* except Exception: the transaction is dropped with its connection and the
\* delivery is rejected with requeue=True
CompStoreFail ==
    /\ faults < MaxFaults
    /\ \/ /\ cpc = "consume"
          /\ cchan = "open"
          /\ dlq # <<>>
          /\ Parsable(Head(dlq))
          /\ cverbs' = <<"nack_requeue">>
          /\ UNCHANGED <<tx, dlq>>
       \/ /\ cpc \in {"cancel", "commit"}
          /\ tx' = NoTx
          /\ cverbs' = Append(cverbs, "nack_requeue")
          /\ dlq' = IF cchan = "open" THEN <<cmsg>> \o dlq ELSE dlq
    /\ faults' = faults + 1
    /\ cmsg' = NoMsg
    /\ cpc' = "consume"
    /\ UNCHANGED <<rvars, db, wvars, pvars, cattempt, cchan, sagaQ, notifyQ, brokerUp,
                   svars, killedAfterPub>>

\* ------------------------------------- saga_callback of the child profile service
\* mutant of Invalid: only a zero is refused, an absent field passes
Invalid_ZeroOnly(m) == m.child_id = 0 \/ m.height = 0

\* if not child_id or not height: None, 0 and 0.0 are all falsy
Invalid(m) == m.child_id \in {None, 0} \/ m.height \in {None, 0}

\* mutant of Forced: the flag is ignored
Forced_Ignored(m) == m.force_error /\ FALSE

\* if message_data.get("force_error")
Forced(m) == m.force_error

\* update_profile_from_saga raises for this message (validation or force_error)
Rejects(m) == Invalid(m) \/ Forced(m)

\* what the dead-letter exchange delivers to profile_saga_dlq: the body as it
\* was published, with the broker's x-death header naming the reason
\* mutant of DeadLetter: an expired message reaches the queue without its body
DeadLetter_ExpiredEmpty(m, reason) ==
    IF reason = "expired"
    THEN [m EXCEPT !.x_death = reason, !.measurement_id = None]
    ELSE [m EXCEPT !.x_death = reason]

DeadLetter(m, reason) == [m EXCEPT !.x_death = reason]

\* mutant of Upsert: the height is added to the one stored
Upsert_Accumulates(p, child, height, now) ==
    Put(p, child, [name |-> "NULL", age |-> -1,
                   last_height |-> (IF child \in DOMAIN p
                                    THEN p[child].last_height + height ELSE height),
                   last_updated |-> now])

\* mutant of Upsert: only last_updated is written for a child that exists
Upsert_KeepsHeight(p, child, height, now) ==
    IF child \in DOMAIN p
    THEN [p EXCEPT ![child].last_updated = now]
    ELSE Put(p, child, [name |-> "NULL", age |-> -1, last_height |-> height,
                        last_updated |-> now])

\* INSERT OR REPLACE INTO child_profiles (child_id, last_height, last_updated)
Upsert(p, child, height, now) ==
    Put(p, child, [name |-> "NULL", age |-> -1, last_height |-> height,
                   last_updated |-> now])

\* the message is handled and acknowledged
SagaCallbackAck ==
    /\ sagaQ # <<>>
    /\ brokerUp
    /\ ~Rejects(Head(sagaQ))
    /\ profiles' = Upsert(profiles, Head(sagaQ).child_id, Head(sagaQ).height, nReq)
    /\ sagaQ' = Tail(sagaQ)
    /\ UNCHANGED <<rvars, db, tx, wvars, pvars, cvars, dlq, notifyQ, brokerUp, faults,
                   killedAfterPub, ptx, spc, smsg, sverbs, sclock>>

\* basic_nack(requeue=False): the queue dead-letters the message
SagaCallbackNack ==
    /\ sagaQ # <<>>
    /\ brokerUp
    /\ Rejects(Head(sagaQ))
    /\ dlq' = Append(dlq, DeadLetter(Head(sagaQ), "rejected"))
    /\ sagaQ' = Tail(sagaQ)
    /\ UNCHANGED <<rvars, db, tx, wvars, pvars, cvars, notifyQ, brokerUp, svars, faults,
                   killedAfterPub>>

\* saga_callback step by step, with the bodies any publisher can put on
\* profile_update_queue and with failures of the child_profiles store
MaxMsgs == 2

\* bodies on profile_update_queue: JSON objects with child_id and height
\* absent (None), zero or positive, and a body json.loads cannot parse
SagaBodies ==
    [measurement_id : {1}, child_id : {None, 0, 1, 3}, height : {None, 0, 130},
     timestamp : {1}, force_error : BOOLEAN, x_death : {"none"}]
    \cup {[unparsable |-> TRUE, x_death |-> "none"]}

\* a publisher's basic_publish to profile_update_queue
SagaEnqueue(m) ==
    /\ brokerUp
    /\ sclock + Len(sagaQ) < MaxMsgs
    /\ sagaQ' = Append(sagaQ, m)
    /\ UNCHANGED <<rvars, db, tx, wvars, pvars, cvars, dlq, notifyQ, brokerUp, svars,
                   faults, killedAfterPub>>

\* mutant of ParticipantDeliver: no prefetch limit, the next message is
\* delivered while the previous one is unanswered
ParticipantDeliver_NoQos ==
    /\ spc \in {"idle", "callback"}
    /\ swk = "consume" /\ schan = "open"
    /\ brokerUp
    /\ sagaQ # <<>>
    /\ smsg' = Head(sagaQ)
    /\ sagaQ' = Tail(sagaQ)
    /\ sverbs' = <<>>
    /\ sclock' = sclock + 1
    /\ spc' = "callback"
    /\ UNCHANGED <<rvars, db, tx, wvars, pvars, cvars, dlq, notifyQ, brokerUp, profiles,
                   ptx, faults, killedAfterPub>>

\* the broker delivers the head of the queue (prefetch_count=1: only when the
\* previous delivery has been answered) and saga_callback starts
ParticipantDeliver ==
    /\ spc = "idle"
    /\ swk = "consume" /\ schan = "open"
    /\ brokerUp
    /\ sagaQ # <<>>
    /\ smsg' = Head(sagaQ)
    /\ sagaQ' = Tail(sagaQ)
    /\ sverbs' = <<>>
    /\ sclock' = sclock + 1
    /\ spc' = "callback"
    /\ UNCHANGED <<rvars, db, tx, wvars, pvars, cvars, dlq, notifyQ, brokerUp, profiles,
                   ptx, faults, killedAfterPub>>

\* except Exception: basic_nack(requeue=False); the queue dead-letters the message
\* mutant of ParticipantNack: basic_nack(requeue=True)
ParticipantNack_Requeue ==
    /\ sverbs' = Append(sverbs, "nack")
    /\ sagaQ' = <<smsg>> \o sagaQ
    /\ dlq' = dlq
    /\ spc' = "idle"

ParticipantNack ==
    /\ sverbs' = Append(sverbs, "nack")
    /\ dlq' = Append(dlq, DeadLetter(smsg, "rejected"))
    /\ sagaQ' = sagaQ
    /\ spc' = "idle"

\* json.loads or update_profile_from_saga raises before the store is touched
ParticipantReject ==
    /\ spc = "callback"
    /\ IF Parsable(smsg) THEN Rejects(smsg) ELSE TRUE
    /\ ParticipantNack
    /\ UNCHANGED <<rvars, db, tx, wvars, pvars, cvars, notifyQ, brokerUp, profiles,
                   ptx, smsg, sclock, faults, killedAfterPub>>

\* sqlite3.connect and INSERT OR REPLACE, not yet committed
ParticipantUpsert ==
    /\ spc = "callback"
    /\ IF Parsable(smsg) THEN ~Rejects(smsg) ELSE FALSE
    /\ ptx' = [open |-> TRUE,
               rows |-> Upsert(profiles, smsg.child_id, smsg.height, sclock)]
    /\ spc' = "commit"
    /\ UNCHANGED <<rvars, db, tx, wvars, pvars, cvars, qvars, brokerUp, profiles, smsg,
                   sverbs, sclock, faults, killedAfterPub>>

\* conn.commit(); return True; finally conn.close()
ParticipantCommit ==
    /\ spc = "commit"
    /\ profiles' = ptx.rows
    /\ ptx' = NoPtx
    /\ spc' = "ack"
    /\ UNCHANGED <<rvars, db, tx, wvars, pvars, cvars, qvars, brokerUp, smsg, sverbs,
                   sclock, faults, killedAfterPub>>

\* ch.basic_ack
ParticipantAck ==
    /\ spc = "ack"
    /\ sverbs' = Append(sverbs, "ack")
    /\ spc' = "idle"
    /\ UNCHANGED <<rvars, db, tx, wvars, pvars, cvars, qvars, brokerUp, profiles, ptx,
                   smsg, sclock, faults, killedAfterPub>>

\* sqlite3.connect, execute or commit raises: finally conn.close() drops the
\* uncommitted upsert, the exception reaches saga_callback's except
ParticipantStoreFail ==
    /\ faults < MaxFaults
    /\ \/ spc = "callback" /\ (IF Parsable(smsg) THEN ~Rejects(smsg) ELSE FALSE)
       \/ spc = "commit"
    /\ faults' = faults + 1
    /\ ptx' = NoPtx
    /\ ParticipantNack
    /\ UNCHANGED <<rvars, db, tx, wvars, pvars, cvars, notifyQ, brokerUp, profiles,
                   smsg, sclock, killedAfterPub>>

\* ------------------------------------------------- consume_saga_events()
\* except of the connection loop: retry while attempts are left, else return
ParticipantRetry ==
    /\ schan' = "none"
    /\ IF sattempt < max_retries - 1
       THEN /\ sattempt' = sattempt + 1
            /\ swk' = "connect"
       ELSE /\ swk' = "stopped"
            /\ UNCHANGED sattempt

\* mutant of ParticipantConnect: the attempt counter starts over on success
ParticipantConnect_Resets ==
    /\ swk = "connect"
    /\ brokerUp
    /\ DeclareAll(registry, ParticipantDecls).ok
    /\ registry' = DeclareAll(registry, ParticipantDecls).reg
    /\ schan' = "open"
    /\ swk' = "consume"
    /\ sattempt' = 0
    /\ UNCHANGED <<dpc, db, tx, wvars, pvars, cvars, qvars, brokerUp, svars, faults,
                   killedAfterPub>>

\* connection, declarations, basic_qos(1), basic_consume, start_consuming
ParticipantConnect ==
    /\ swk = "connect"
    /\ brokerUp
    /\ DeclareAll(registry, ParticipantDecls).ok
    /\ registry' = DeclareAll(registry, ParticipantDecls).reg
    /\ schan' = "open"
    /\ swk' = "consume"
    /\ UNCHANGED <<dpc, sattempt, db, tx, wvars, pvars, cvars, qvars, brokerUp, svars,
                   faults, killedAfterPub>>

\* BlockingConnection or a declaration raises
ParticipantConnectFail ==
    /\ swk = "connect"
    /\ ~brokerUp \/ ~DeclareAll(registry, ParticipantDecls).ok
    /\ registry' = (IF brokerUp THEN DeclareAll(registry, ParticipantDecls).reg ELSE registry)
    /\ ParticipantRetry
    /\ UNCHANGED <<dpc, db, tx, wvars, pvars, cvars, qvars, brokerUp, svars, faults,
                   killedAfterPub>>

\* the consumer's connection is closed between two deliveries (broker
\* restart, missed heartbeats, network)
ParticipantConnectionDrops ==
    /\ swk = "consume"
    /\ schan = "open"
    /\ spc = "idle"
    /\ schan' = "lost"
    /\ UNCHANGED <<registry, dpc, swk, sattempt, db, tx, wvars, pvars, cvars, qvars,
                   brokerUp, svars, faults, killedAfterPub>>

\* start_consuming raises on the lost connection: the except of the loop
ParticipantConnectionLost ==
    /\ swk = "consume"
    /\ schan = "lost"
    /\ ParticipantRetry
    /\ UNCHANGED <<registry, dpc, db, tx, wvars, pvars, cvars, qvars, brokerUp, svars,
                   faults, killedAfterPub>>

\* ---------------------------------------------------------------- broker
\* the per-message TTL of the head of profile_update_queue runs out
SagaExpire ==
    /\ sagaQ # <<>>
    /\ brokerUp
    /\ dlq' = Append(dlq, DeadLetter(Head(sagaQ), "expired"))
    /\ sagaQ' = Tail(sagaQ)
    /\ UNCHANGED <<rvars, db, tx, wvars, pvars, cvars, notifyQ, brokerUp, svars, faults,
                   killedAfterPub>>

Lost(chan) == IF chan = "open" THEN "lost" ELSE chan

\* RabbitMQ becomes unreachable: every open connection is lost, an
\* unacknowledged delivery goes back to the head of its queue
BrokerDown ==
    /\ brokerUp
    /\ brokerUp' = FALSE
    /\ pchan' = Lost(pchan)
    /\ cchan' = Lost(cchan)
    /\ dlq' = IF Unacked THEN <<cmsg>> \o dlq ELSE dlq
    /\ UNCHANGED <<rvars, db, tx, wvars, ppc, pattempt, batch, pidx, cpc, cattempt,
                   cmsg, cverbs, sagaQ, notifyQ, svars, faults, killedAfterPub>>

BrokerRecovers ==
    /\ ~brokerUp
    /\ brokerUp' = TRUE
    /\ UNCHANGED <<rvars, db, tx, wvars, pvars, cvars, qvars, svars, faults,
                   killedAfterPub>>

\* the publisher's idle connection is closed (missed heartbeats, network)
PublisherConnectionLost ==
    /\ pchan = "open"
    /\ pchan' = "lost"
    /\ UNCHANGED <<rvars, db, tx, wvars, ppc, pattempt, batch, pidx, cvars, qvars,
                   brokerUp, svars, faults, killedAfterPub>>

\* ------------------------------------------------------------ the process
\* the measurement service is killed and started again (lifespan): open
\* transactions are rolled back, connections closed, both workers start over
Kill ==
    /\ faults < MaxFaults
    /\ faults' = faults + 1
    /\ killedAfterPub' =
         killedAfterPub \cup
           (IF ppc \in {"mark", "status", "commit"} THEN {Cur.id} ELSE {})
    /\ tx' = NoTx
    /\ wpc' = "idle"
    /\ resp' = IF wpc = "idle" THEN resp ELSE NoResp
    /\ ppc' = "connect"
    /\ pattempt' = 0
    /\ pchan' = "none"
    /\ batch' = <<>>
    /\ pidx' = 0
    /\ cpc' = "connect"
    /\ cattempt' = 0
    /\ cchan' = "none"
    /\ cmsg' = NoMsg
    /\ cverbs' = <<>>
    /\ dlq' = IF Unacked THEN <<cmsg>> \o dlq ELSE dlq
    /\ UNCHANGED <<rvars, db, nReq, wreq, wmid, wts, sagaQ, notifyQ, brokerUp, svars>>

\* ------------------------------------------------------------ specification
\* every step of the two services and of the queues between them
Protocol ==
    \/ \E r \in Requests : MeasureInsertMeasurement(r)
    \/ MeasureInsertOutbox
    \/ MeasureCommit
    \/ MeasureSagaPublish
    \/ MeasureSagaFail
    \/ \E r \in Requests : MeasureStoreFail(r)
    \/ PublisherConnect
    \/ (pattempt < MaxConnFails /\ PublisherConnectFail)
    \/ PublisherPoll
    \/ PublisherPollFail
    \/ PublisherPublish
    \/ PublisherPublishFail
    \/ PublisherMark
    \/ PublisherStatus
    \/ PublisherCommit
    \/ PublisherStoreFail
    \/ CompConnect
    \/ (cattempt < MaxConnFails /\ CompConnectFail)
    \/ (cattempt < MaxConnFails /\ CompConnectionLost)
    \/ CompDelete
    \/ CompCancel
    \/ CompCommit
    \/ CompAck
    \/ CompStoreFail
    \/ SagaCallbackAck
    \/ SagaCallbackNack
    \/ SagaExpire
    \/ BrokerRecovers
    \/ Kill

Next ==
    \/ Protocol
    \/ BrokerDown
    \/ PublisherConnectionLost

Spec == Init /\ [][Next]_vars

\* The same system with the publisher's connection loop explored to its last
\* attempt (the listener's stays capped)
BringUpNext ==
    \/ \E r \in Requests : MeasureInsertMeasurement(r)
    \/ MeasureInsertOutbox
    \/ MeasureCommit
    \/ MeasureSagaPublish
    \/ MeasureSagaFail
    \/ PublisherConnect
    \/ PublisherConnectFail
    \/ PublisherPoll
    \/ PublisherPublish
    \/ PublisherPublishFail
    \/ PublisherMark
    \/ PublisherStatus
    \/ PublisherCommit
    \/ BrokerDown
    \/ BrokerRecovers

BringUpSpec == Init /\ [][BringUpNext]_vars

\* Fair scheduling: each thread that can take its next step eventually takes
\* it.  The publisher loops forever with time.sleep(5); a request handler and
\* a compensation callback run to their end.
PublisherRun ==
    \/ PublisherConnect
    \/ (pattempt < MaxConnFails /\ PublisherConnectFail)
    \/ PublisherPoll
    \/ PublisherPublish
    \/ PublisherPublishFail
    \/ PublisherMark
    \/ PublisherStatus
    \/ PublisherCommit

MeasureRun ==
    \/ MeasureInsertOutbox
    \/ MeasureCommit
    \/ MeasureSagaPublish
    \/ MeasureSagaFail

CompRun ==
    \/ CompCancel
    \/ CompCommit
    \/ CompAck

LiveSpec ==
    /\ Init
    /\ [][Next]_vars
    /\ WF_vars(PublisherRun)
    /\ WF_vars(MeasureRun)
    /\ WF_vars(CompRun)

\* The kill-and-restart scenario: requests, the publisher, the participant
\* and the compensation listener with kills of the service and failures of
\* the publisher's transactions; once the publisher has been killed between a
\* broker publish and its commit, the broker stays as it is and the new
\* publisher's connection is not lost
KillNext ==
    \/ \E r \in Requests : MeasureInsertMeasurement(r)
    \/ MeasureInsertOutbox
    \/ MeasureCommit
    \/ MeasureSagaPublish
    \/ MeasureSagaFail
    \/ PublisherConnect
    \/ (pattempt < MaxConnFails /\ PublisherConnectFail)
    \/ PublisherPoll
    \/ PublisherPublish
    \/ PublisherPublishFail
    \/ PublisherMark
    \/ PublisherStatus
    \/ PublisherCommit
    \/ PublisherStoreFail
    \/ CompConnect
    \/ CompDelete
    \/ CompCancel
    \/ CompCommit
    \/ CompAck
    \/ SagaCallbackAck
    \/ SagaCallbackNack
    \/ BrokerRecovers
    \/ Kill
    \/ (killedAfterPub = {} /\ BrokerDown)
    \/ (killedAfterPub = {} /\ PublisherConnectionLost)

KillSpec ==
    /\ Init
    /\ [][KillNext]_vars
    /\ WF_vars(PublisherRun)
    /\ WF_vars(MeasureRun)
    /\ WF_vars(CompRun)

\* The SAGA participant on its own: any publisher's messages on
\* profile_update_queue, saga_callback step by step, failures of its store
ParticipantNext ==
    \/ \E m \in SagaBodies : SagaEnqueue(m)
    \/ ParticipantDeliver
    \/ ParticipantReject
    \/ ParticipantUpsert
    \/ ParticipantCommit
    \/ ParticipantAck
    \/ ParticipantStoreFail
    \/ BrokerRecovers

ParticipantSpec == Init /\ [][ParticipantNext]_vars

\* ----------------------------------------------------- a backlog of events
\* The publisher started on an outbox that holds more rows than one batch: the
\* events of BatchRows committed measure() calls, all of them published but a
\* few, or all unpublished but a few.
BatchRows == 12
MaxOdd == 2

\* the store after measure() number 1..BatchRows, the events in P published
Backlog(P) ==
    [meas |-> [i \in 1..BatchRows |->
                  [child_id |-> 1, height |-> 125, timestamp |-> i,
                   status |-> IF i \in P THEN "sent" ELSE "pending"]],
     outbox |-> [i \in 1..BatchRows |->
                  [event_type |-> "measurement_created",
                   payload |-> EventPayload(i, 1, 125, i),
                   published |-> IF i \in P THEN 1 ELSE 0,
                   created_at |-> i]],
     mseq |-> BatchRows, oseq |-> BatchRows]

BatchInit ==
    /\ \E P \in SUBSET (1..BatchRows) :
          /\ Cardinality(P) <= MaxOdd \/ Cardinality(P) >= BatchRows - MaxOdd
          /\ db = Backlog(P)
    /\ tx = NoTx
    /\ nReq = BatchRows
    /\ wpc = "idle"
    /\ wreq = NoMsg
    /\ wmid = 0
    /\ wts = 0
    /\ resp = NoResp
    /\ ppc = "connect"
    /\ pattempt = 0
    /\ pchan = "none"
    /\ batch = <<>>
    /\ pidx = 0
    /\ cpc = "connect"
    /\ cattempt = 0
    /\ cchan = "none"
    /\ cmsg = NoMsg
    /\ cverbs = <<>>
    /\ sagaQ = <<>>
    /\ dlq = <<>>
    /\ notifyQ = <<>>
    /\ brokerUp = TRUE
    /\ profiles = SampleProfiles
    /\ ptx = NoPtx
    /\ spc = "idle"
    /\ smsg = NoMsg
    /\ sverbs = <<>>
    /\ sclock = 0
    /\ faults = 0
    /\ killedAfterPub = {}
    /\ registry = DeclareAll({}, ParticipantDecls).reg
    /\ dpc = [c \in Clients |-> IF c = "participant" THEN Len(ParticipantDecls) ELSE 0]
    /\ swk = "consume"
    /\ schan = "open"
    /\ sattempt = 0

BatchNext ==
    \/ PublisherConnect
    \/ PublisherPoll
    \/ PublisherPublish
    \/ PublisherMark
    \/ PublisherStatus
    \/ PublisherCommit
    \/ PublisherStoreFail

BatchSpec == BatchInit /\ [][BatchNext]_vars

\* ------------------------------------------------ declarations, call by call
\* A fresh broker and the four clients that declare on it, each making the
\* calls of its block in order; a client whose block is done may run it again
\* (the next measure() call, a reconnect).
DeclInit ==
    /\ db = EmptyDb
    /\ tx = NoTx
    /\ nReq = 0
    /\ wpc = "idle"
    /\ wreq = NoMsg
    /\ wmid = 0
    /\ wts = 0
    /\ resp = NoResp
    /\ ppc = "connect"
    /\ pattempt = 0
    /\ pchan = "none"
    /\ batch = <<>>
    /\ pidx = 0
    /\ cpc = "connect"
    /\ cattempt = 0
    /\ cchan = "none"
    /\ cmsg = NoMsg
    /\ cverbs = <<>>
    /\ sagaQ = <<>>
    /\ dlq = <<>>
    /\ notifyQ = <<>>
    /\ brokerUp = TRUE
    /\ profiles = SampleProfiles
    /\ ptx = NoPtx
    /\ spc = "idle"
    /\ smsg = NoMsg
    /\ sverbs = <<>>
    /\ sclock = 0
    /\ faults = 0
    /\ killedAfterPub = {}
    /\ registry = {}
    /\ dpc = [c \in Clients |-> 0]
    /\ swk = "connect"
    /\ schan = "none"
    /\ sattempt = 0

\* the next declaration of c's block is sent: it is accepted or it raises
DeclareStep(c) ==
    /\ brokerUp
    /\ dpc[c] \in 0..(Len(Decls(c)) - 1)
    /\ LET r == Declare(registry, Decls(c)[dpc[c] + 1])
       IN /\ registry' = r.reg
          /\ dpc' = [dpc EXCEPT ![c] = IF r.ok THEN dpc[c] + 1 ELSE -1]
    /\ UNCHANGED <<db, tx, wvars, pvars, cvars, qvars, brokerUp, svars, faults,
                   killedAfterPub, kvars>>

\* the block is run again on a new connection
DeclareAgain(c) ==
    /\ brokerUp
    /\ dpc[c] = Len(Decls(c))
    /\ dpc' = [dpc EXCEPT ![c] = 0]
    /\ UNCHANGED <<db, tx, wvars, pvars, cvars, qvars, brokerUp, svars, faults,
                   killedAfterPub, registry, kvars>>

DeclNext ==
    \/ \E c \in Clients : DeclareStep(c)
    \/ \E c \in Clients : DeclareAgain(c)

DeclSpec == DeclInit /\ [][DeclNext]_vars

\* ------------------------------------------- from request queue to compensation
\* The two consumers behind the initiator: bodies arrive on
\* profile_update_queue, saga_callback acks or rejects them, rejected ones
\* reach profile_saga_dlq and compensate_saga_failure works on a
\* store that holds the rows of BatchRows committed measure() calls.
PipelineInit ==
    /\ \E P \in SUBSET (1..BatchRows) :
          /\ Cardinality(P) <= 1
          /\ db = Backlog(P)
    /\ tx = NoTx
    /\ nReq = BatchRows
    /\ wpc = "idle"
    /\ wreq = NoMsg
    /\ wmid = 0
    /\ wts = 0
    /\ resp = NoResp
    /\ ppc = "connect"
    /\ pattempt = 0
    /\ pchan = "none"
    /\ batch = <<>>
    /\ pidx = 0
    /\ cpc = "connect"
    /\ cattempt = 0
    /\ cchan = "none"
    /\ cmsg = NoMsg
    /\ cverbs = <<>>
    /\ sagaQ = <<>>
    /\ dlq = <<>>
    /\ notifyQ = <<>>
    /\ brokerUp = TRUE
    /\ profiles = SampleProfiles
    /\ ptx = NoPtx
    /\ spc = "idle"
    /\ smsg = NoMsg
    /\ sverbs = <<>>
    /\ sclock = 0
    /\ faults = 0
    /\ killedAfterPub = {}
    \* the SAGA consumer is up: its declarations are made
    /\ registry = DeclareAll({}, ParticipantDecls).reg
    /\ dpc = [c \in Clients |-> IF c = "participant" THEN Len(ParticipantDecls) ELSE 0]
    /\ swk = "consume"
    /\ schan = "open"
    /\ sattempt = 0

\* a forced request and a plain request for Measurement 1, a request without
\* measurement_id, and a body json.loads cannot parse
PipelineBodies ==
    [measurement_id : {1, None}, child_id : {1}, height : {130},
     timestamp : {1}, force_error : {TRUE}, x_death : {"none"}]
    \cup [measurement_id : {1}, child_id : {1}, height : {130},
          timestamp : {1}, force_error : {FALSE}, x_death : {"none"}]
    \cup {[unparsable |-> TRUE, x_death |-> "none"]}

PipelineNext ==
    \/ \E m \in PipelineBodies : SagaEnqueue(m)
    \/ ParticipantDeliver
    \/ ParticipantReject
    \/ ParticipantUpsert
    \/ ParticipantCommit
    \/ ParticipantAck
    \/ CompConnect
    \/ CompDelete
    \/ CompReject
    \/ CompCancel
    \/ CompCommit
    \/ CompAck
    \/ CompStoreFail

PipelineSpec == PipelineInit /\ [][PipelineNext]_vars

\* ------------------------------------------------ the consumers' lifetimes
\* Both consuming workers from their start on a fresh broker, with RabbitMQ
\* going down and coming back and connections lost while consuming; each
\* connection loop is explored to its last attempt.
LifetimeInit ==
    /\ db = EmptyDb
    /\ tx = NoTx
    /\ nReq = 0
    /\ wpc = "idle"
    /\ wreq = NoMsg
    /\ wmid = 0
    /\ wts = 0
    /\ resp = NoResp
    /\ ppc = "connect"
    /\ pattempt = 0
    /\ pchan = "none"
    /\ batch = <<>>
    /\ pidx = 0
    /\ cpc = "connect"
    /\ cattempt = 0
    /\ cchan = "none"
    /\ cmsg = NoMsg
    /\ cverbs = <<>>
    /\ sagaQ = <<>>
    /\ dlq = <<>>
    /\ notifyQ = <<>>
    /\ brokerUp \in BOOLEAN
    /\ profiles = SampleProfiles
    /\ ptx = NoPtx
    /\ spc = "idle"
    /\ smsg = NoMsg
    /\ sverbs = <<>>
    /\ sclock = 0
    /\ faults = 0
    /\ killedAfterPub = {}
    /\ registry = {}
    /\ dpc = [c \in Clients |-> 0]
    /\ swk = "connect"
    /\ schan = "none"
    /\ sattempt = 0

\* the forced request of a first Measurement
LifetimeBodies ==
    [measurement_id : {1}, child_id : {1}, height : {130},
     timestamp : {1}, force_error : {TRUE}, x_death : {"none"}]

LifetimeNext ==
    \/ BrokerDown
    \/ BrokerRecovers
    \/ ParticipantConnect
    \/ ParticipantConnectFail
    \/ ParticipantConnectionDrops
    \/ ParticipantConnectionLost
    \/ CompConnect
    \/ CompConnectFail
    \/ CompConnectionLost
    \/ \E m \in LifetimeBodies : SagaEnqueue(m)
    \/ ParticipantDeliver
    \/ ParticipantReject
    \/ CompDelete
    \/ CompCancel
    \/ CompCommit
    \/ CompAck

LifetimeSpec == LifetimeInit /\ [][LifetimeNext]_vars

\* ------------------------------------------------- the broker stays reachable
\* Requests, the publisher, the participant and the compensation listener
\* with RabbitMQ up throughout; the listener's transaction may fail.  Every
\* thread that can take its next step eventually takes it, and a request on
\* profile_update_queue is eventually consumed or expires.
ReachableInit == Init /\ brokerUp

MeasureSteps ==
    \/ MeasureInsertOutbox
    \/ MeasureCommit
    \/ MeasureSagaPublish

PublisherSteps ==
    \/ PublisherConnect
    \/ PublisherPoll
    \/ PublisherPublish
    \/ PublisherMark
    \/ PublisherStatus
    \/ PublisherCommit

ListenerSteps ==
    \/ CompConnect
    \/ CompDelete
    \/ CompCancel
    \/ CompCommit
    \/ CompAck

ReachableNext ==
    \/ \E r \in Requests : MeasureInsertMeasurement(r)
    \/ MeasureSteps
    \/ PublisherSteps
    \/ ListenerSteps
    \/ CompStoreFail
    \/ SagaCallbackAck
    \/ SagaCallbackNack
    \/ SagaExpire

ReachableSpec ==
    /\ ReachableInit
    /\ [][ReachableNext]_vars
    /\ WF_vars(MeasureSteps)
    /\ WF_vars(PublisherSteps)
    /\ WF_vars(ListenerSteps)
    /\ WF_vars(SagaCallbackAck \/ SagaCallbackNack \/ SagaExpire)

\* The same with a participant that consumes every request before its TTL
\* runs out.
TimelyNext ==
    \/ \E r \in Requests : MeasureInsertMeasurement(r)
    \/ MeasureSteps
    \/ PublisherSteps
    \/ ListenerSteps
    \/ CompStoreFail
    \/ SagaCallbackAck
    \/ SagaCallbackNack

TimelySpec ==
    /\ ReachableInit
    /\ [][TimelyNext]_vars
    /\ WF_vars(MeasureSteps)
    /\ WF_vars(PublisherSteps)
    /\ WF_vars(ListenerSteps)
    /\ WF_vars(SagaCallbackAck \/ SagaCallbackNack)

\* ------------------------------------------------------------------ claims
\* the measurement id an outbox row's payload references
Ref(d, e) == JsonGet(d.outbox[e].payload, "\"measurement_id\"")

\* the outbox rows of image d referencing measurement m
EventsOf(d, m) == {e \in DOMAIN d.outbox : Ref(d, e) = m}

\* parts of C1: the state invariant and the step property
C1_BothOrNeither ==
    /\ db.mseq = db.oseq
    /\ \A m \in DOMAIN db.meas : EventsOf(db, m) # {}

C1_AtomicStep ==
    /\ (DOMAIN db'.meas \ DOMAIN db.meas # {} \/ DOMAIN db'.outbox # DOMAIN db.outbox)
         => /\ DOMAIN db'.meas \ DOMAIN db.meas = {db'.mseq}
            /\ DOMAIN db'.outbox \ DOMAIN db.outbox = {db'.oseq}
            /\ DOMAIN db.outbox \subseteq DOMAIN db'.outbox
            /\ Ref(db', db'.oseq) = db'.mseq
            /\ db'.mseq = db.mseq + 1
    /\ (wpc # "idle" /\ wpc' = "idle" /\ resp'.status # "created")
         => (db' = db /\ tx'.owner # "writer")

\* C1: measure() is atomic in the committed store.  In every state every
\* committed Measurement has its outbox row and both AUTOINCREMENT counters
\* agree; every step that adds a Measurement row or an outbox row to the
\* committed store adds exactly one of each, the outbox row referencing the
\* new Measurement; and a measure() call that ends with the error response
\* leaves the committed store as it was, with no transaction of its own open.
C1_OutboxWriterAtomic == []C1_BothOrNeither /\ [][C1_AtomicStep]_vars

\* C1 witness: a call failed after its Measurement INSERT and nothing of it
\* is in the committed store
C1_Witness ==
    /\ resp = Failed
    /\ wmid = db.mseq + 1
    /\ wts = nReq
    /\ wmid \notin DOMAIN db.meas
    /\ EventsOf(db, wmid) = {}

\* parts of C2: the commit step and the return step
C2_CommitStep ==
    (wpc = "commit" /\ wpc' = "saga") =>
        /\ DOMAIN db'.meas \ DOMAIN db.meas = {wmid}
        /\ db'.meas[wmid] = [child_id |-> wreq.child_id, height |-> wreq.height,
                             timestamp |-> wts, status |-> "pending"]
        /\ \E e \in DOMAIN db'.outbox :
              /\ DOMAIN db'.outbox \ DOMAIN db.outbox = {e}
              /\ db'.outbox[e].event_type = "measurement_created"
              /\ db'.outbox[e].published = 0
              /\ JsonGet(db'.outbox[e].payload, "\"measurement_id\"") = wmid
              /\ JsonGet(db'.outbox[e].payload, "\"child_id\"") = db'.meas[wmid].child_id
              /\ JsonGet(db'.outbox[e].payload, "\"height\"") = db'.meas[wmid].height
              /\ JsonGet(db'.outbox[e].payload, "\"timestamp\"") = db'.meas[wmid].timestamp

C2_ReturnStep ==
    (resp'.status = "created" /\ resp' # resp) =>
        /\ wpc = "saga"
        /\ resp'.measurement_id = wmid

\* C2: the commit of a measure() call adds the Measurement wmid with status
\* pending and the request's child_id, height and timestamp, and exactly one
\* outbox row, of type measurement_created, unpublished, whose payload carries
\* the same measurement_id, child_id, height and timestamp; the "created"
\* response returns that measurement id.
C2_SuccessfulMeasure == [][C2_CommitStep /\ C2_ReturnStep]_vars

\* C2 witness: a call has returned "created" and its rows are as committed
C2_Witness ==
    /\ resp.status = "created"
    /\ resp.measurement_id \in DOMAIN db.meas
    /\ db.meas[resp.measurement_id].status = "pending"
    /\ \E e \in EventsOf(db, resp.measurement_id) : db.outbox[e].published = 0

\* part of C3: the step in which the SAGA publish fails
C3_SagaFailStep ==
    (wpc = "saga" /\ wpc' = "idle" /\ sagaQ' = sagaQ /\ faults' = faults) =>
        /\ db' = db
        /\ tx' = tx
        /\ wmid \in DOMAIN db'.meas
        /\ EventsOf(db', wmid) # {}
        /\ resp' = Created(wmid)

\* C3: when the SAGA publish of measure() fails after the commit (the handler
\* leaves Step 3 without a SAGA request enqueued and the process was not
\* killed), the committed store is unchanged by the step, both committed rows
\* are still there, and the response is "created" with the measurement id.
C3_SagaFailureKeepsCommit == [][C3_SagaFailStep]_vars

\* C3 witness: "created" was returned although no SAGA request was ever sent:
\* the broker is down, no queue holds a message, and the rows are committed
C3_Witness ==
    /\ resp.status = "created"
    /\ ~brokerUp
    /\ nReq = 1
    /\ sagaQ = <<>> /\ dlq = <<>> /\ cmsg = NoMsg
    /\ profiles = SampleProfiles
    /\ 1 \in DOMAIN db.meas
    /\ EventsOf(db, 1) # {}

\* C4: every Measurement row with status sent has exactly one outbox row
\* referencing it, and that row is published.
C4_SentHasOnePublishedEvent ==
    \A m \in DOMAIN db.meas :
        db.meas[m].status = "sent" =>
            /\ Cardinality(EventsOf(db, m)) = 1
            /\ \A e \in EventsOf(db, m) : db.outbox[e].published = 1

\* C4 witness: a sent Measurement exists while another one was deleted by
\* compensation
C4_Witness ==
    /\ \E m \in DOMAIN db.meas : db.meas[m].status = "sent"
    /\ \E m \in 1..db.mseq : m \notin DOMAIN db.meas

\* number of times the queue accepted event e
PubCount(e) == Cardinality({i \in 1..Len(notifyQ) : notifyQ[i].eid = e})

\* parts of C5: the state invariant and the kill step
C5_PublishedWasAccepted ==
    \A e \in DOMAIN db.outbox :
        db.outbox[e].published = 1 =>
            \E i \in 1..Len(notifyQ) : notifyQ[i].body = db.outbox[e].payload

C5_KillStep ==
    \A e \in killedAfterPub' \ killedAfterPub :
        /\ db'.outbox[e].published = 0
        /\ PubCount(e) >= 1

\* C5: an outbox row marked published has had its payload accepted by the
\* notification queue at least once, and a kill between the broker publish and
\* the local commit leaves that row unpublished in the store.
C5_NoSilentLoss == []C5_PublishedWasAccepted /\ [][C5_KillStep]_vars

\* C5 witness: an event whose publisher was killed between publish and commit
\* is published now, after a duplicate publish
C5_Witness ==
    \E e \in killedAfterPub :
        /\ db.outbox[e].published = 1
        /\ PubCount(e) >= 2

\* parts of C7: the step in which the handling of an event fails
C7_EventFails ==
    /\ ppc \in {"publish", "mark", "status", "commit"}
    /\ ppc' \in {"publish", "poll"}
    /\ pidx' # pidx
    /\ (ppc = "publish" \/ faults' = faults + 1)

C7_FailStep ==
    C7_EventFails =>
        /\ db' = db
        /\ tx'.owner # "publisher"
        /\ pidx < Len(batch) =>
              (ppc' = "publish" /\ pidx' = pidx + 1 /\ batch' = batch)

\* C7: when the handling of the event the publisher is at fails (basic_publish
\* raises, or an UPDATE or the commit raises), the step leaves the committed
\* store unchanged (the event stays unpublished, its Measurement's status and
\* the marks of the events published before it are kept), drops the publisher's
\* open transaction, and moves on to the next event of the same batch.
C7_FailureIsolation == [][C7_FailStep]_vars

\* C7 witness: the first event of the batch failed after its broker publish
\* (it is still unpublished in the store) and the second event of the same
\* batch has been published to the broker in the same cycle
C7_Witness ==
    /\ ppc = "mark"
    /\ pidx = 2
    /\ db.outbox[batch[1].id].published = 0
    /\ PubCount(batch[1].id) >= 1
    /\ PubCount(batch[2].id) >= 1

\* C8: the first publications of the outbox events reach the notification
\* queue in ascending id order: whenever a larger id precedes a smaller one in
\* the queue, the smaller one had already been published before it.
C8_AscendingFirstPublication ==
    \A i, j \in 1..Len(notifyQ) :
        (i < j /\ notifyQ[i].eid > notifyQ[j].eid) =>
            \E k \in 1..(i - 1) : notifyQ[k].eid = notifyQ[j].eid

\* C8 witness: event 1 was published, failed locally, event 2 was published,
\* and event 1 was published again on a later cycle
C8_Witness ==
    /\ Len(notifyQ) = 3
    /\ notifyQ[1].eid = 1 /\ notifyQ[2].eid = 2 /\ notifyQ[3].eid = 1

\* parts of C10: the state invariant and the step property
C10_Bounded ==
    /\ pattempt <= max_retries - 1
    /\ ppc = "stopped" =>
          /\ pattempt = max_retries - 1
          /\ pchan = "none"
          /\ batch = <<>>
          /\ tx.owner # "publisher"
          /\ notifyQ = <<>>
          /\ \A e \in DOMAIN db.outbox : db.outbox[e].published = 0

C10_Step ==
    /\ ppc = "stopped" => pvars' = pvars
    /\ (ppc' = "stopped" /\ ppc # "stopped") =>
          (ppc = "connect" /\ pattempt = max_retries - 1 /\ ~brokerUp)

\* C10: the publisher makes at most max_retries connection attempts; it stops
\* only after the last one failed; once stopped it never moves again; and a
\* publisher that stopped has never polled: nothing was published and every
\* outbox row is still unpublished.
C10_BoundedBringUp == []C10_Bounded /\ [][C10_Step]_vars

\* C10 witness: the publisher has stopped while an event waits in the outbox
C10_Witness ==
    /\ ppc = "stopped"
    /\ \E e \in DOMAIN db.outbox : db.outbox[e].published = 0

\* outbox row e is marked published in the committed store
Published(e) == e \in DOMAIN db.outbox /\ db.outbox[e].published = 1

\* part of C6: the publisher has just been started again for killed event e
C6_Restarted(e) ==
    /\ e \in killedAfterPub
    /\ ppc = "connect"
    /\ pattempt = 0
    /\ brokerUp

\* C6: once the publisher was killed between the broker publish of event e and
\* the commit of its mark and starts again with the broker reachable, event e
\* is published to the queue again and its row reaches published; and a row
\* that is published stays published.
C6_RepublishedAfterKill ==
    /\ \A e \in 1..MaxReq :
          C6_Restarted(e) ~> (Published(e) /\ PubCount(e) >= 2)
    /\ [][\A e \in 1..MaxReq : Published(e) => Published(e)']_vars

\* C6 witness: the killed event is published after a second broker publish
C6_Witness ==
    \E e \in killedAfterPub :
        /\ Published(e)
        /\ PubCount(e) = 2
        /\ brokerUp
        /\ pchan = "open"

\* C9: whenever the publisher's connection is lost while an event is
\* unpublished and the broker is reachable from then on, the publisher has an
\* open connection again later and the event is eventually published.
C9_ReconnectsAfterLoss ==
    \A e \in 1..MaxReq :
        []((pchan = "lost" /\ e \in DOMAIN db.outbox /\ db.outbox[e].published = 0
              /\ []brokerUp)
              => <>(pchan = "open" /\ Published(e)))

\* child_id or height is absent from the delivery saga_callback has in hand
AbsentField(m) == IF Parsable(m) THEN m.child_id = None \/ m.height = None ELSE FALSE

\* parts of C11: the verbs sent and the steps taken for such a message
C11_NeverAcked == AbsentField(smsg) => \A i \in 1..Len(sverbs) : sverbs[i] = "nack"

C11_Step ==
    (spc # "idle" /\ AbsentField(smsg)) =>
        /\ profiles' = profiles
        /\ ptx' = NoPtx
        /\ spc' # spc => /\ spc' = "idle"
                         /\ sverbs' = <<"nack">>
                         /\ sagaQ' = sagaQ
                         /\ dlq' = Append(dlq, DeadLetter(smsg, "rejected"))

\* C11: a SagaRequest in which child_id or height is absent is answered with
\* basic_nack(requeue=False) (it is dead-lettered, not put back on the queue),
\* is never acked, and no step of its handling changes child_profiles,
\* committed or uncommitted.
C11_AbsentFieldRejected == []C11_NeverAcked /\ [][C11_Step]_vars

\* C11 witness: a message without height was nacked, child_profiles untouched
C11_Witness ==
    /\ spc = "idle"
    /\ AbsentField(smsg)
    /\ smsg.child_id = 3
    /\ sverbs = <<"nack">>
    /\ profiles = SampleProfiles
    /\ dlq = <<DeadLetter(smsg, "rejected")>>

\* the force-failure flag of the delivery in hand is set
ForceFlag(m) == IF Parsable(m) THEN m.force_error ELSE FALSE

\* part of C12: the steps taken for a message with the flag set
C12_Step ==
    (spc # "idle" /\ ForceFlag(smsg)) =>
        /\ profiles' = profiles
        /\ ptx' = NoPtx
        /\ spc' # spc => /\ spc' = "idle"
                         /\ sverbs' = <<"nack">>
                         /\ sagaQ' = sagaQ
                         /\ dlq' = Append(dlq, DeadLetter(smsg, "rejected"))

\* C12: a SagaRequest with force_error set is answered with
\* basic_nack(requeue=False) whatever its child_id and height are, without any
\* change to child_profiles, and lands on profile_saga_dlq.
C12_ForcedFailureRejected == [][C12_Step]_vars

\* C12 witness: a flagged message with valid child_id and height was
\* dead-lettered and child_profiles is as it was
C12_Witness ==
    /\ spc = "idle"
    /\ ForceFlag(smsg)
    /\ smsg.child_id = 3
    /\ smsg.height = 130
    /\ sverbs = <<"nack">>
    /\ profiles = SampleProfiles
    /\ dlq = <<DeadLetter(smsg, "rejected")>>

\* child_id and height are both present and the flag is not set
PresentFields(m) ==
    IF Parsable(m)
    THEN m.child_id # None /\ m.height # None /\ ~m.force_error
    ELSE FALSE

\* C13: for a SagaRequest with child_id and height present, whatever their
\* values, and force_error not set, when the store does not fail: the answer
\* is basic_ack, sent when the upsert has committed, and the profile keyed by
\* child_id has the request's height and the time of this handling.
C13_PresentFieldsUpserted ==
    [][(spc # "idle" /\ PresentFields(smsg) /\ sverbs' # sverbs /\ faults' = faults) =>
          /\ sverbs' = <<"ack">>
          /\ ptx = NoPtx
          /\ smsg.child_id \in DOMAIN profiles
          /\ profiles[smsg.child_id].last_height = smsg.height
          /\ profiles[smsg.child_id].last_updated = sclock]_vars

\* parts of C14: the verbs of one delivery, and the step that sends one
C14_OneVerb ==
    /\ Len(sverbs) <= 1
    /\ spc # "idle" => sverbs = <<>>
    /\ (spc = "idle" /\ smsg # NoMsg) => Len(sverbs) = 1

C14_Step ==
    /\ (spc # "idle" /\ sverbs' # sverbs) =>
          /\ spc' = "idle"
          /\ sagaQ' = sagaQ
          /\ sverbs' \in {<<"ack">>, <<"nack">>}
          /\ dlq' = IF sverbs' = <<"nack">>
                    THEN Append(dlq, DeadLetter(smsg, "rejected"))
                    ELSE dlq
    /\ (spc # "idle" /\ spc' # spc /\ (~Parsable(smsg) \/ Rejects(smsg) \/ faults' # faults)) =>
          sverbs' = <<"nack">>

\* C14: every delivery to saga_callback ends with exactly one verb, basic_ack
\* or basic_nack(requeue=False): the participant never puts the message back
\* on profile_update_queue and never sends two verbs; a parse error, a
\* validation error and a failure of the upsert all end in the nack, which
\* dead-letters the message to profile_saga_dlq.
C14_OneTerminalVerb == []C14_OneVerb /\ [][C14_Step]_vars

\* C14 witness: the upsert of a valid message failed and the message was
\* nacked to profile_saga_dlq, child_profiles untouched
C14_Witness ==
    /\ spc = "idle"
    /\ PresentFields(smsg)
    /\ ~Rejects(smsg)
    /\ faults = 1
    /\ sverbs = <<"nack">>
    /\ profiles = SampleProfiles
    /\ dlq # <<>>
    /\ dlq[Len(dlq)] = DeadLetter(smsg, "rejected")

\* the step in which compensate_saga_failure's basic_ack is sent
CompAckStep == cpc = "ack" /\ cchan = "open" /\ cverbs' = Append(cverbs, "ack")

\* the step in which compensate_saga_failure commits
CompCommitStep == cpc = "commit" /\ cpc' = "ack"

\* the request for measurement m is on neither queue and with no consumer
Settled(m) ==
    /\ \A i \in 1..Len(sagaQ) : sagaQ[i].measurement_id # m
    /\ \A i \in 1..Len(dlq) : dlq[i].measurement_id # m
    /\ cmsg = NoMsg

\* C15: when the compensation listener sends basic_ack for the dead-lettered
\* request of measurement m, row m is not in the committed measurements table,
\* whatever its status was, and the listener has no transaction open: the
\* delete was committed before the ack.
C15_AckAfterDelete ==
    [][CompAckStep =>
          /\ cmsg.measurement_id \notin DOMAIN db.meas
          /\ cmsg.measurement_id \notin DOMAIN db'.meas
          /\ tx.owner # "listener"]_vars

\* C15 witness: the request of a measurement that had been marked sent was
\* acked by the listener and the row is gone
C15_Witness ==
    /\ cpc = "consume"
    /\ cverbs = <<"ack">>
    /\ \E m \in 1..db.mseq :
          /\ m \notin DOMAIN db.meas
          /\ Settled(m)
          /\ \E e \in EventsOf(db, m) : db.outbox[e].published = 1
          /\ \E i \in 1..Len(notifyQ) : JsonGet(notifyQ[i].body, "\"measurement_id\"") = m

\* C16: the commit of the compensation for measurement m leaves every outbox
\* row that references m and was unpublished (published = 0) when the
\* compensation transaction ran with published = -1.
C16_CancelsUnpublishedEvent ==
    [][CompCommitStep =>
          \A e \in DOMAIN db.outbox :
             (Ref(db, e) = cmsg.measurement_id /\ db.outbox[e].published = 0)
                => db'.outbox[e].published = -1]_vars

\* C17: the publisher never publishes to notify_queue the event of a
\* measurement whose creation request had the force-failure flag set (here:
\* of the latest request, while it is the latest), under any interleaving of
\* its cycle with the participant and the compensation listener.
C17_NoNotificationForForcedFailure ==
    [][notifyQ' # notifyQ =>
          ~(/\ wmid = JsonGet(Cur.payload, "\"measurement_id\"")
            /\ wreq.force_saga_error)]_vars

\* parts of C18: the step in which the handling fails after its first
\* statement, and the steps in which the listener's transaction ends
C18_FailStep ==
    (cpc \in {"cancel", "commit"} /\ cpc' = "consume") =>
        /\ db' = db
        /\ tx' = NoTx
        /\ cverbs' = <<"nack_requeue">>
        /\ cchan = "open" => (dlq' # <<>> /\ Head(dlq') = cmsg)

C18_CommitStep ==
    (tx.owner = "listener" /\ db' # db) =>
        /\ cpc = "commit"
        /\ db' = CancelEvents(DeleteMeasurement(db, cmsg.measurement_id),
                              cmsg.measurement_id)

\* C18: when a step of the compensation fails locally the delivery is
\* answered with basic_nack(requeue=True) only (no ack; the message is back at
\* the head of profile_saga_dlq) and the committed store is as it was; the
\* listener's changes reach the committed store only in the one commit that
\* follows both the DELETE and the UPDATE.
C18_CompensationFailure == [][C18_FailStep /\ C18_CommitStep]_vars

\* C18 witness: a compensation failed and was nacked with requeue; the
\* Measurement is still there and the request is at the head of the
\* dead-letter queue
C18_Witness ==
    /\ cpc = "consume"
    /\ cverbs = <<"nack_requeue">>
    /\ faults = 1
    /\ tx = NoTx
    /\ dlq # <<>>
    /\ Head(dlq).measurement_id \in DOMAIN db.meas

\* C19: a delivery of the dead-lettered request of a measurement whose
\* compensation has already committed (the row is deleted) commits without
\* changing the measurements or the outbox table, and is acked.
C19_SecondDeliveryNoOp ==
    [][(/\ cpc \in {"cancel", "commit", "ack"}
        /\ tx.owner \in {"listener", "none"}
        /\ cmsg.measurement_id \notin DOMAIN db.meas
        /\ cpc' # cpc
        /\ faults' = faults
        /\ cchan = "open")
       => /\ db' = db
          /\ cpc = "ack" => cverbs' = <<"ack">>
          /\ cpc # "ack" => (tx'.owner = "none" \/ tx'.db = db)]_vars

\* C19 witness: the second delivery has run its DELETE and its UPDATE on a
\* store from which the first delivery's commit had removed the Measurement,
\* while another event is still unpublished
C19_Witness ==
    /\ cpc = "commit"
    /\ tx.owner = "listener"
    /\ cmsg.measurement_id \in 1..db.mseq
    /\ cmsg.measurement_id \notin DOMAIN db.meas
    /\ tx.db = db
    /\ \E e \in DOMAIN db.outbox :
          db.outbox[e].published = 0 /\ Ref(db, e) # cmsg.measurement_id

\* parts of C20: the step that dead-letters a request, and the commit
C20_DeadLetterStep ==
    (sagaQ # <<>> /\ sagaQ' = Tail(sagaQ) /\ Len(dlq') = Len(dlq) + 1) =>
        /\ dlq'[Len(dlq')].x_death \in {"expired", "rejected"}
        /\ [dlq'[Len(dlq')] EXCEPT !.x_death = "none"] = Head(sagaQ)
        /\ \A i \in 1..Len(dlq) : dlq'[i] = dlq[i]

C20_SameCommit ==
    CompCommitStep =>
        db' = CancelEvents(DeleteMeasurement(db, cmsg.measurement_id),
                           cmsg.measurement_id)

C22_Step ==
    \A e \in DOMAIN db.outbox :
        /\ e \in DOMAIN db'.outbox
        /\ db'.outbox[e].published # db.outbox[e].published =>
              /\ db.outbox[e].published = 0
              /\ \/ db'.outbox[e].published = 1 /\ tx.owner = "publisher"
                 \/ db'.outbox[e].published = -1 /\ tx.owner = "listener"

C26_StatusWords ==
    \A m \in DOMAIN db.meas : db.meas[m].status \in {"pending", "sent", "failed"}

C26_Step ==
    \A m \in DOMAIN db'.meas :
        IF m \in DOMAIN db.meas
        THEN db'.meas[m].status # db.meas[m].status =>
                /\ db.meas[m].status = "pending"
                /\ db'.meas[m].status = "sent"
                /\ tx.owner = "publisher"
                /\ \E i \in 1..Len(notifyQ) :
                      JsonGet(notifyQ[i].body, "\"measurement_id\"") = m
        ELSE db'.meas[m].status = "pending"

\* C26: every committed Measurement has status pending, sent or failed; a
\* new row starts pending; the only change of a status is from pending to
\* sent, in a commit of the publisher after notify_queue accepted the event of
\* that Measurement; a sent Measurement never goes back to pending.
C26_MeasurementStatus == []C26_StatusWords /\ [][C26_Step]_vars

\* C26 witness: one Measurement has been marked sent, a later one is pending
C26_Witness ==
    /\ 1 \in DOMAIN db.meas
    /\ 2 \in DOMAIN db.meas
    /\ db.meas[1].status = "sent"
    /\ db.meas[2].status = "pending"

\* part of C27: the step that removes a committed Measurement
C27_Step ==
    \A m \in DOMAIN db.meas :
        m \notin DOMAIN db'.meas =>
            /\ tx.owner = "listener"
            /\ cpc = "commit"
            /\ cmsg.measurement_id = m
            /\ cmsg.x_death \in {"rejected", "expired"}
            /\ cmsg.child_id = db.meas[m].child_id
            /\ cmsg.height = db.meas[m].height
            /\ cmsg.timestamp = db.meas[m].timestamp

\* C27: a committed Measurement leaves the store only in a commit of the
\* compensation listener handling a delivery from profile_saga_dlq that names
\* its id, and that delivery is the SagaRequest measure() published for it
\* (same child_id, height, timestamp), dead-lettered by a rejection or by
\* expiry.
C27_RemovedOnlyByCompensation == [][C27_Step]_vars

\* C27 witness: of two Measurements the first was removed by an acked
\* compensation, the second is still there
C27_Witness ==
    /\ cverbs = <<"ack">>
    /\ db.mseq = 2
    /\ DOMAIN db.meas = {2}
    /\ Settled(1)

\* the requests for measurement m that are on a queue or with a consumer
InFlight(m) ==
    Cardinality({i \in 1..Len(sagaQ) : sagaQ[i].measurement_id = m})
    + Cardinality({i \in 1..Len(dlq) : dlq[i].measurement_id = m})
    + (IF cmsg # NoMsg THEN (IF cmsg.measurement_id = m THEN 1 ELSE 0) ELSE 0)

\* parts of C28: the step that publishes a SagaRequest, and the end of a call
C28_PublishStep ==
    Len(sagaQ') > Len(sagaQ) =>
        LET msg == sagaQ'[Len(sagaQ')]
        IN /\ sagaQ' = Append(sagaQ, msg)
           /\ wpc = "saga"
           /\ wpc' = "idle"
           /\ tx.owner # "writer"
           /\ wmid \in DOMAIN db.meas
           /\ EventsOf(db, wmid) # {}
           /\ InFlight(wmid) = 0
           /\ msg.measurement_id = wmid
           /\ msg.child_id = db.meas[wmid].child_id
           /\ msg.height = db.meas[wmid].height
           /\ msg.timestamp = db.meas[wmid].timestamp
           /\ msg.force_error = wreq.force_saga_error
           /\ msg.delivery_mode = 2
           /\ msg.expiration = <<"3", "0", "0", "0", "0">>

C28_NoPublishForRollback ==
    (wpc # "idle" /\ wpc' = "idle" /\ resp'.status # "created") => sagaQ' = sagaQ

\* C28: a SagaRequest is published only in the last step of a measure() call
\* (so at most once per call), after the commit of the Measurement and its
\* outbox row, never by a call that ends with the error response; it carries
\* the Measurement's id, child_id, height and timestamp and the request's
\* force flag, delivery_mode 2 and expiration "30000".
C28_SagaInitiator == [][C28_PublishStep /\ C28_NoPublishForRollback]_vars

\* C28 witness: the SagaRequest of a force-failure request is on
\* profile_update_queue and its Measurement is committed
C28_Witness ==
    /\ wpc = "idle"
    /\ resp = Created(wmid)
    /\ sagaQ # <<>>
    /\ sagaQ[Len(sagaQ)].measurement_id = wmid
    /\ sagaQ[Len(sagaQ)].force_error
    /\ wmid \in DOMAIN db.meas

\* the first measure() call returned "created", its Measurement is there, and
\* its SagaRequest was never sent: none is on a queue or with a consumer, the
\* participant has acked nothing and the listener has handled nothing
FirstRequestNeverSent ==
    /\ nReq = 1
    /\ wpc = "idle"
    /\ resp = Created(1)
    /\ 1 \in DOMAIN db.meas
    /\ InFlight(1) = 0
    /\ profiles = SampleProfiles
    /\ cverbs = <<>>

\* C29: when the SAGA publish of a measure() call raised (here: of the first
\* call, while it is the only one), no SagaRequest or dead-letter message for
\* its Measurement appears, the Measurement is not deleted, and its status
\* stays pending.
C29_NeverSentStaysPending ==
    [][FirstRequestNeverSent =>
          /\ 1 \in DOMAIN db'.meas
          /\ InFlight(1)' = 0
          /\ db'.meas[1].status = "pending"]_vars

\* ids of the rows a SELECT ... WHERE published = 0 sees in d
Unpublished(d) == {e \in DOMAIN d.outbox : d.outbox[e].published = 0}

BatchIds(b) == {b[i].id : i \in DOMAIN b}

\* b is the up-to-10 unpublished rows of d with the smallest ids, ascending
SmallestUnpublished(b, d) ==
    /\ Len(b) <= 10
    /\ Len(b) = (IF Cardinality(Unpublished(d)) < 10
                 THEN Cardinality(Unpublished(d)) ELSE 10)
    /\ BatchIds(b) \subseteq Unpublished(d)
    /\ \A i, j \in DOMAIN b : i < j => b[i].id < b[j].id
    /\ \A u \in Unpublished(d) \ BatchIds(b) : \A i \in DOMAIN b : b[i].id < u
    /\ \A i \in DOMAIN b : b[i].payload = d.outbox[b[i].id].payload

\* the batch read selects exactly those rows
C25_ReadStep ==
    [][ppc = "poll" => SmallestUnpublished(batch', db)]_vars

\* a publish attempt is for the next event of the batch, in its order
C25_AttemptStep ==
    [][notifyQ' # notifyQ =>
          /\ pidx \in 1..Len(batch)
          /\ notifyQ' = Append(notifyQ, [eid |-> batch[pidx].id,
                                          body |-> batch[pidx].payload])
          /\ pidx' \in {pidx, pidx + 1, 0}]_vars

\* C25: each publisher cycle attempts at most 10 events, namely the up-to-10
\* unpublished rows with the smallest ids at the time of the batch read, in
\* ascending id order; a published row is never selected.
C25_BatchOfTen == C25_ReadStep /\ C25_AttemptStep

\* the tenth event of a full batch is being attempted while an unpublished
\* row with a larger id waits for the next cycle
C25_Witness ==
    /\ ppc = "mark"
    /\ Len(batch) = 10
    /\ pidx = 10
    /\ \E u \in Unpublished(db) : u > batch[10].id
    /\ \E e \in DOMAIN db.outbox : db.outbox[e].published = 1 /\ e < batch[10].id

Objects(ds) == {ds[i] : i \in DOMAIN ds}

\* the SAGA queue is declared with the same properties by its two declarers,
\* the DLX, the DLQ and the binding by all three
C30_Identical ==
    /\ MeasureDecls[4] = ParticipantDecls[4]
    /\ MeasureDecls[4].op = "queue_declare" /\ MeasureDecls[4].name = SAGA_QUEUE
    /\ \A i \in 1..3 : /\ MeasureDecls[i] = ListenerDecls[i]
                        /\ ParticipantDecls[i] = ListenerDecls[i]
    /\ Has(Objects(ListenerDecls), "exchange_declare", SAGA_DLX_NAME)
    /\ Has(Objects(ListenerDecls), "queue_declare", SAGA_DLQ_NAME)
    /\ Has(Objects(ListenerDecls), "queue_bind", SAGA_DLQ_NAME)

\* C30: the SAGA queue is declared identically by initiator and participant,
\* the DLX, the DLQ and the binding identically by initiator, participant and
\* listener; in whatever order they declare, no declaration raises, and as soon
\* as the SAGA queue exists a rejected or expired request is routable to the DLQ.
C30_ConsistentTopology ==
    /\ C30_Identical
    /\ \A c \in {"initiator", "participant", "listener"} : dpc[c] # -1
    /\ Has(registry, "queue_declare", SAGA_QUEUE) => Routable(registry, SAGA_QUEUE)

\* all three have made every declaration of their block on the same broker
C30_Witness ==
    /\ dpc["initiator"] = 4
    /\ dpc["participant"] = 4
    /\ dpc["listener"] = 3
    /\ Routable(registry, SAGA_QUEUE)
    /\ Objects(ListenerDecls) \subseteq registry

\* the SagaRequest of Measurement m is on the dead-letter queue
DeadLettered(m) == \E i \in DOMAIN dlq : dlq[i].measurement_id = m

\* C21: with the broker reachable, the listener running and the store failing
\* only finitely often, every Measurement whose SagaRequest was rejected or
\* expired is eventually deleted.
C21_CompensationLiveness ==
    \A m \in 1..MaxReq : DeadLettered(m) ~> (m \notin DOMAIN db.meas)

\* the listener has committed the deletion of the Measurement of an expired
\* request, after one failed attempt, and is about to acknowledge the message
C21_Witness ==
    /\ cpc = "ack"
    /\ cmsg.x_death = "expired"
    /\ cmsg.measurement_id \notin DOMAIN db.meas
    /\ cmsg.measurement_id <= db.mseq
    /\ faults = 1

\* measure() has committed Measurement m and is about to publish its request
Committed(m, force) ==
    wpc = "saga" /\ wmid = m /\ wreq.force_saga_error = force

\* what the success path ends in for Measurement m
Succeeded(m) ==
    /\ m \in DOMAIN db.meas
    /\ db.meas[m].status = "sent"
    /\ Cardinality({e \in DOMAIN db.outbox : Ref(db, e) = m}) = 1
    /\ \A e \in DOMAIN db.outbox : Ref(db, e) = m => db.outbox[e].published = 1
    /\ db.meas[m].child_id \in DOMAIN profiles
    /\ profiles[db.meas[m].child_id].last_height = db.meas[m].height

\* a Measurement leaves the table only for a request with the flag set
C23_NotDeleted ==
    [][\A m \in DOMAIN db.meas :
          m \notin DOMAIN db'.meas => cmsg.measurement_id = m /\ cmsg.force_error]_vars

\* C23: a valid creation request with the force-failure flag false, fair
\* workers, the broker reachable: eventually the Measurement has status sent,
\* its single outbox row is published and the child's last_height is the
\* submitted height; the Measurement is never deleted on this path.
C23_EndToEndSuccess ==
    /\ \A m \in 1..MaxReq : Committed(m, FALSE) ~> Succeeded(m)
    /\ C23_NotDeleted

\* the second request succeeded after the first one was compensated
C23_Witness ==
    /\ Succeeded(2)
    /\ 1 \notin DOMAIN db.meas
    /\ profiles[1].last_updated = 2

\* what the failure path ends in for Measurement m
Compensated(m) ==
    /\ m \notin DOMAIN db.meas
    /\ \A e \in DOMAIN db.outbox : Ref(db, e) = m => db.outbox[e].published # 0

\* C24: a creation request with the force-failure flag true, fair workers,
\* the broker reachable: eventually the Measurement is gone and no outbox row
\* referencing it is unpublished, and both stay so forever.
C24_EndToEndFailure ==
    \A m \in 1..MaxReq : Committed(m, TRUE) ~> [](Compensated(m))

\* a forced request was rejected, its Measurement is deleted and its event is
\* no longer unpublished
C24_Witness ==
    /\ cpc = "ack"
    /\ cmsg.force_error
    /\ cmsg.x_death = "rejected"
    /\ Compensated(cmsg.measurement_id)

\* C31: the publisher's and the notification consumer's declarations of the
\* notification queue match, so in either startup order both declarations
\* succeed and neither worker's declaration raises.
C31_NotifyQueueDeclared ==
    /\ dpc["publisher"] # -1
    /\ dpc["notifier"] # -1

\* a delivery to the participant: the previous one has been acked or nacked
C32_ParticipantStep ==
    [][sclock' # sclock =>
          /\ spc = "idle"
          /\ smsg = NoMsg \/ Len(sverbs) = 1]_vars

\* a delivery to the listener: it holds no unanswered message
C32_ListenerStep ==
    [][(cmsg' # cmsg /\ cmsg' # NoMsg) => (cmsg = NoMsg /\ ~Unacked)]_vars

\* C32: with prefetch 1 a consumer has at most one unacknowledged delivery;
\* the next message is delivered to the participant, and likewise to the
\* listener, only after the previous one has been acked or nacked.
C32_OneInFlight == C32_ParticipantStep /\ C32_ListenerStep

\* the participant has its second delivery while the listener works on the
\* dead letter of the first
C32_Witness ==
    /\ sclock = 2
    /\ spc = "callback"
    /\ sverbs = <<>>
    /\ Unacked
    /\ cmsg # NoMsg

\* the listener commits its transaction for the message it holds
CompensationCommits == cpc = "commit" /\ cpc' = "ack"

\* C36: handling a dead-letter request for Measurement m changes no
\* Measurement row other than m, changes no outbox row whose payload
\* references another measurement id (ids with m's digits as a prefix
\* included), and changes no outbox row that is already published.
C36_CompensationFrame ==
    [][CompensationCommits =>
          /\ \A k \in DOMAIN db.meas \ {cmsg.measurement_id} :
                k \in DOMAIN db'.meas /\ db'.meas[k] = db.meas[k]
          /\ DOMAIN db'.meas \subseteq DOMAIN db.meas
          /\ DOMAIN db'.outbox = DOMAIN db.outbox
          /\ \A e \in DOMAIN db.outbox :
                (Ref(db, e) # cmsg.measurement_id \/ db.outbox[e].published = 1)
                   => db'.outbox[e] = db.outbox[e]]_vars

\* the compensation for Measurement 1 is committed in a store that holds
\* Measurements 10, 11 and 12 with unpublished events and a published event
C36_Witness ==
    /\ cpc = "ack"
    /\ cmsg.measurement_id = 1
    /\ 1 \notin DOMAIN db.meas
    /\ {10, 11, 12} \subseteq DOMAIN db.meas
    /\ db.outbox[10].published = 0
    /\ db.outbox[12].published = 0
    /\ \E e \in DOMAIN db.outbox : db.outbox[e].published = 1

\* positions of dlq that hold a body json.loads cannot parse
Poison(q) == {i \in DOMAIN q : ~Parsable(q[i])}

\* the listener answers a delivery of an unparsable body
C38_RejectStep ==
    [][(cpc = "consume" /\ cchan = "open" /\ dlq # <<>> /\ cverbs' # cverbs
          /\ (IF dlq # <<>> THEN ~Parsable(Head(dlq)) ELSE FALSE)) =>
          /\ cverbs' = <<"nack_requeue">>
          /\ dlq' = dlq
          /\ db' = db
          /\ tx' = tx
          /\ cpc' = "consume"
          /\ cchan' = "open"]_vars

\* an unparsable body never leaves the dead-letter queue
C38_KeptStep ==
    [][Cardinality(Poison(dlq')) >= Cardinality(Poison(dlq))]_vars

\* a message without measurement_id is handled: nothing changes, it is acked
C38_NoIdStep ==
    [][(cpc \in {"commit", "ack"} /\ cpc' # cpc /\ cmsg.measurement_id = None) =>
          /\ db' = db
          /\ cpc = "ack" => cverbs' = <<"ack">>]_vars

\* C38: a dead-letter message whose body cannot be parsed is rejected by the
\* listener with requeue=True on every delivery, is never acknowledged or
\* discarded, stays deliverable, and leaves measurements and outbox
\* unchanged; a parseable message without measurement_id is acknowledged and
\* changes no row.
C38_UnprocessableDeadLetter ==
    C38_RejectStep /\ C38_KeptStep /\ C38_NoIdStep

\* an unparsable body was rejected with requeue and is again at the head of
\* the queue of the consuming listener
C38_Witness ==
    /\ cpc = "consume"
    /\ cchan = "open"
    /\ dlq # <<>>
    /\ Poison(dlq) = {1}
    /\ cverbs = <<"nack_requeue">>
    /\ DOMAIN db.meas # {}

\* rows p and q are the same apart from last_updated
SameButUpdated(p, q) ==
    /\ DOMAIN p = DOMAIN q
    /\ \A c \in DOMAIN p : [p[c] EXCEPT !.last_updated = 0] = [q[c] EXCEPT !.last_updated = 0]

\* the profile of the message's child was written by an upsert of the same height
AppliedBefore ==
    /\ smsg.child_id \in DOMAIN profiles
    /\ profiles[smsg.child_id].name = "NULL"
    /\ profiles[smsg.child_id].last_height = smsg.height

\* C33: applying the same valid SagaRequest to the profile store a second
\* time raises no error and gives the same child_profiles rows as applying it
\* once, apart from last_updated; no second row for the child is created.
C33_ReappliableUpsert ==
    [][(spc = "commit" /\ spc' = "ack") =>
          /\ AppliedBefore => SameButUpdated(profiles, profiles')
          /\ SameButUpdated(profiles',
                            Upsert(profiles', smsg.child_id, smsg.height, sclock + 1))
          /\ sverbs' = sverbs]_vars

\* the second delivery of a request is being committed on the rows its first
\* delivery wrote
C33_Witness ==
    /\ spc = "commit"
    /\ sclock = 2
    /\ AppliedBefore
    /\ profiles[smsg.child_id].last_updated = 1
    /\ ptx.rows[smsg.child_id].last_updated = 2
    /\ ptx.rows[smsg.child_id].last_height = smsg.height

\* C34: an upsert for a child_id that has a profile row with name and age
\* changes only last_height and last_updated of that row, name and age stay,
\* and every other row is unchanged; for an unknown child_id a row with only
\* last_height and last_updated is created.
C34_UpsertFrame ==
    [][(spc = "commit" /\ spc' = "ack") =>
          /\ \A c \in DOMAIN profiles \ {smsg.child_id} :
                c \in DOMAIN profiles' /\ profiles'[c] = profiles[c]
          /\ profiles'[smsg.child_id].last_height = smsg.height
          /\ IF smsg.child_id \in DOMAIN profiles
             THEN /\ profiles'[smsg.child_id].name = profiles[smsg.child_id].name
                  /\ profiles'[smsg.child_id].age = profiles[smsg.child_id].age
             ELSE /\ profiles'[smsg.child_id].name = "NULL"
                  /\ profiles'[smsg.child_id].age = None]_vars

\* ids of committed Measurements that were deleted
Deleted(d) == (1..d.mseq) \ DOMAIN d.meas

\* C35: once the listener has deleted Measurement m no row with id m exists
\* in any later state: the publisher's status update does not recreate it and
\* the writer never gives id m to a later Measurement.
C35_DeletedIsGone ==
    [][/\ Deleted(db) \subseteq Deleted(db')
       /\ db'.mseq >= db.mseq
       /\ \A m \in DOMAIN db'.meas \ DOMAIN db.meas : m > db.mseq
       /\ tx'.owner # "none" =>
             /\ DOMAIN tx'.db.meas \cap Deleted(db) = {}
             /\ tx'.db.mseq >= db.mseq]_vars

\* Measurement 1 was deleted, the publisher has since published and marked
\* its event, and a later creation request got id 2
C35_Witness ==
    /\ Deleted(db) = {1}
    /\ 2 \in DOMAIN db.meas
    /\ db.outbox[1].published = 1
    /\ Ref(db, 1) = 1
    /\ cverbs = <<"ack">>

\* the attempts of both loops stay within range(max_retries)
C37_Budget ==
    /\ cattempt \in 0..(max_retries - 1)
    /\ sattempt \in 0..(max_retries - 1)

\* a failed attempt and a connection lost while consuming each use up one
\* attempt, a successful connection gives none back, and the tenth ends the loop
C37_ListenerStep ==
    [][/\ cattempt' >= cattempt
       /\ (cpc' \in {"connect", "stopped"} /\ <<cpc, cattempt>>' # <<cpc, cattempt>>)
             => IF cattempt < max_retries - 1
                THEN cattempt' = cattempt + 1 /\ cpc' = "connect"
                ELSE cpc' = "stopped"
       /\ (cpc' = "stopped" /\ cpc # "stopped") => cattempt = max_retries - 1
       /\ cpc = "stopped" => (cpc' = "stopped" /\ cchan' = "none" /\ Len(dlq') >= Len(dlq))]_vars

C37_ParticipantStep ==
    [][/\ sattempt' >= sattempt
       /\ (swk' \in {"connect", "stopped"} /\ <<swk, sattempt>>' # <<swk, sattempt>>)
             => IF sattempt < max_retries - 1
                THEN sattempt' = sattempt + 1 /\ swk' = "connect"
                ELSE swk' = "stopped"
       /\ (swk' = "stopped" /\ swk # "stopped") => sattempt = max_retries - 1
       /\ swk = "stopped" => (swk' = "stopped" /\ schan' = "none" /\ Len(sagaQ') >= Len(sagaQ))]_vars

====
